---- MODULE Spec2Model ----
(***************************************************************************)
(* Water-constrained route planning of the Lake Champlain & Hudson River   *)
(* Boater's Guide: boundary and depth stores, the cached water grid, the   *)
(* A* path finder, leg assembly (js/navigation.js) and the multi-stop      *)
(* route assembler with its stop list (js/app.js).                         *)
(*                                                                         *)
(* Coordinates are integers in a local planar unit: one grid cell          *)
(* (GRID_CONFIG.latStep / lngStep, about 200 m) is 108 units, so one       *)
(* kilometre is 540 units.  Depths are in decimetres.                      *)
(***************************************************************************)
EXTENDS Integers, Sequences, FiniteSets, TLC

\* ------------------------------------------------------------------------
\* Program constants, in model units
\* ------------------------------------------------------------------------
LatStep == 108
LngStep == 108
South == 0
West == 0
MAX_GRID_SEARCH_DISTANCE_KM == 2700
MaxLatitude == 9000
MaxLongitude == 18000
DefaultDraft == 15
DefaultMargin == 10
PenaltyGentle == 27
PenaltyModerate == 81
PenaltySharp == 216
PenaltyVerySharp == 432
TurnPenaltyEnabled == TRUE
Infinity == 1000000000
NoDepth == 0 - 1

\* Bounds of the model: the lattice is NumRows x NumCols cells, the stop
\* list holds at most MaxStops entries.
NumRows == 5
NumCols == 3
MaxStops == 3

North == South + (NumRows - 1) * LatStep
East == West + (NumCols - 1) * LngStep

\* ------------------------------------------------------------------------
\* Arithmetic helpers
\* ------------------------------------------------------------------------
Abs(v) == IF v < 0 THEN 0 - v ELSE v

RECURSIVE SqrtSearch(_, _, _)
SqrtSearch(n, lo, hi) ==
    IF lo >= hi THEN lo
    ELSE LET mid == (lo + hi + 1) \div 2
         IN IF mid * mid <= n THEN SqrtSearch(n, mid, hi)
                              ELSE SqrtSearch(n, lo, mid - 1)

\* Math.sqrt, rounded up to a whole unit.  Rounding up keeps the triangle
\* inequality of the distance (the ceiling is subadditive); rounding down
\* would not.
Sqrt(n) ==
    LET root == SqrtSearch(n, 0, 46340)
    IN IF root * root = n THEN root ELSE root + 1

\* Great-circle distance; at lake scale the planar distance in local units.
haversineDistance(lat1, lng1, lat2, lng2) ==
    LET dLat == lat2 - lat1
        dLng == lng2 - lng1
    IN Sqrt(dLat * dLat + dLng * dLng)

\* Math.round(x * 1000000) / 1000000: the nearest multiple of the quantum,
\* which is one model unit.
Round6(v) == (2 * v + 1) \div 2

\* ------------------------------------------------------------------------
\* Boundary data (GeoJSON: rings of <<lng, lat>> pairs) and depth data
\* ------------------------------------------------------------------------
\* The lake covers lattice rows 0..2; its north shore lies between rows 2
\* and 3.
LakeOuter == << <<-27, -27>>, <<243, -27>>, <<243, 297>>, <<-27, 297>> >>
\* An island (hole of the lake) around lattice cell row 1, col 1.
IslandRing == << <<108, 48>>, <<168, 108>>, <<108, 168>>, <<48, 108>> >>
\* A pond north of the lake, separated from it by a row of land.
PondOuter == << <<-27, 405>>, <<135, 405>>, <<135, 459>>, <<-27, 459>> >>
\* A canal cut through the island and the east shore, a body of its own.
CanalOuter == << <<27, 60>>, <<351, 60>>, <<351, 156>>, <<27, 156>> >>

\* The lake with its south-east corner (lattice cell row 0, col 2) silted
\* up: the same shore otherwise, the same island.
BayOuter ==
    << <<-27, -27>>, <<162, -27>>, <<162, 54>>, <<243, 54>>, <<243, 297>>, <<-27, 297>> >>

LakeFeature == [name |-> "Lake Champlain", outer |-> LakeOuter, holes |-> <<IslandRing>>]
PondFeature == [name |-> "Pond", outer |-> PondOuter, holes |-> <<>>]
CanalFeature == [name |-> "Champlain Canal", outer |-> CanalOuter, holes |-> <<>>]
BayFeature == [name |-> "Lake Champlain", outer |-> BayOuter, holes |-> <<IslandRing>>]

\* What fetching the boundary file can deliver: nothing (the fetch failed),
\* the lake and the pond, or these and the canal.
BoundaryFiles ==
    { <<>>, <<LakeFeature, PondFeature>>, <<LakeFeature, PondFeature, CanalFeature>> }

\* A later survey of the same waters, with the silted corner.
SurveyFiles == BoundaryFiles \cup { <<BayFeature, PondFeature>> }

\* What fetching the depth file can deliver: nothing, or sparse samples
\* keyed by grid id (depth in decimetres).
DepthSamples == (4 :> 20) @@ (1 :> 60)
DepthFiles == { << >>, DepthSamples }

\* The vessel profiles the settings panel offers: <<draft, margin>>.
VesselProfiles == { <<15, 10>>, <<5, 10>> }

\* The POI catalogue (js/data.js): a marina on the west shore, an anchorage
\* east of the island that lies exactly on a lattice coordinate, a dock on
\* the pond, a Hudson River stop far outside the grid, a pier exactly
\* MAX_GRID_SEARCH_DISTANCE_KM south of the grid, and an entry whose
\* latitude is out of range.
PoiIds == { "marina", "anchorage", "pond", "hudson", "pier", "broken" }
POINTS_OF_INTEREST ==
    [id \in PoiIds |->
        CASE id = "marina" -> [id |-> id, lat |-> 108, lng |-> -54]
          [] id = "anchorage" -> [id |-> id, lat |-> 108, lng |-> 216]
          [] id = "pond" -> [id |-> id, lat |-> 432, lng |-> 0]
          [] id = "hudson" -> [id |-> id, lat |-> -4050, lng |-> 0]
          [] id = "pier" -> [id |-> id, lat |-> -2700, lng |-> 0]
          [] id = "broken" -> [id |-> id, lat |-> 9018, lng |-> 0]]

\* ------------------------------------------------------------------------
\* Point in polygon
\* ------------------------------------------------------------------------
\* One iteration of the ray-casting loop: does edge (pj, pi) toggle `inside`?
EdgeToggles(lat, lng, pi, pj) ==
    LET yi == pi[1]
        xi == pi[2]
        yj == pj[1]
        xj == pj[2]
    IN /\ (yi > lat) # (yj > lat)
       /\ IF yj - yi > 0
          THEN (lng - xi) * (yj - yi) < (xj - xi) * (lat - yi)
          ELSE (lng - xi) * (yj - yi) > (xj - xi) * (lat - yi)

pointInPolygon(lat, lng, polygon) ==
    LET n == Len(polygon)
        toggles == { i \in 1..n :
                       EdgeToggles(lat, lng, polygon[i],
                                   polygon[IF i = 1 THEN n ELSE i - 1]) }
    IN Cardinality(toggles) % 2 = 1

pointInPolygonWithHoles(lat, lng, outerRing, holeRings) ==
    IF ~pointInPolygon(lat, lng, outerRing) THEN FALSE
    ELSE \A h \in 1..Len(holeRings) : ~pointInPolygon(lat, lng, holeRings[h])

geoJsonToLatLngSwapLost(geoJsonCoords) == geoJsonCoords

geoJsonToLatLng(geoJsonCoords) ==
    [i \in 1..Len(geoJsonCoords) |-> <<geoJsonCoords[i][2], geoJsonCoords[i][1]>>]

\* isInWater over an explicit boundary store wb = [loaded, bodies]
InWater(wb, lat, lng) ==
    IF ~wb.loaded \/ Len(wb.bodies) = 0 THEN FALSE
    ELSE \E b \in 1..Len(wb.bodies) :
            pointInPolygonWithHoles(lat, lng,
                geoJsonToLatLng(wb.bodies[b].outer),
                [h \in 1..Len(wb.bodies[b].holes) |->
                    geoJsonToLatLng(wb.bodies[b].holes[h])])

RECURSIVE WaterBodyNameFrom(_, _, _, _)
WaterBodyNameFrom(wb, lat, lng, b) ==
    IF b > Len(wb.bodies) THEN "null"
    ELSE IF pointInPolygonWithHoles(lat, lng,
                geoJsonToLatLng(wb.bodies[b].outer),
                [h \in 1..Len(wb.bodies[b].holes) |->
                    geoJsonToLatLng(wb.bodies[b].holes[h])])
         THEN wb.bodies[b].name
         ELSE WaterBodyNameFrom(wb, lat, lng, b + 1)

WaterBodyName(wb, lat, lng) ==
    IF ~wb.loaded THEN "null" ELSE WaterBodyNameFrom(wb, lat, lng, 1)

\* ------------------------------------------------------------------------
\* Grid generation
\* ------------------------------------------------------------------------
GridPoint(id, lat, lng, depth) ==
    [id |-> id,
     lat |-> Round6(lat),
     lng |-> Round6(lng),
     depth |-> depth,
     row |-> (2 * (lat - South) + LatStep) \div (2 * LatStep),
     col |-> (2 * (lng - West) + LngStep) \div (2 * LngStep)]

\* Is the lattice coordinate deep enough?  dg = [loaded, samples] is the
\* depth store, gridId the id the point would get.
DepthOk(dg, gridId, minSafeDepth) ==
    IF dg.loaded /\ gridId \in DOMAIN dg.samples
    THEN ~(dg.samples[gridId] < minSafeDepth)
    ELSE TRUE

DepthOf(dg, gridId) ==
    IF dg.loaded /\ gridId \in DOMAIN dg.samples THEN dg.samples[gridId] ELSE NoDepth

\* The nested lattice loop of generateWaterGrid, row-major from the
\* south-west corner; k counts lattice coordinates, id accepted points.
RECURSIVE GridLoop(_, _, _, _, _, _)
GridLoop(wb, dg, minSafeDepth, k, id, acc) ==
    IF k >= NumRows * NumCols THEN acc
    ELSE LET lat == South + (k \div NumCols) * LatStep
             lng == West + (k % NumCols) * LngStep
         IN IF InWater(wb, lat, lng) /\ DepthOk(dg, id, minSafeDepth)
            THEN GridLoop(wb, dg, minSafeDepth, k + 1, id + 1,
                          Append(acc, GridPoint(id, lat, lng, DepthOf(dg, id))))
            ELSE GridLoop(wb, dg, minSafeDepth, k + 1, id, acc)

BuildGridPoints(wb, dg, minSafeDepth) == GridLoop(wb, dg, minSafeDepth, 0, 0, <<>>)

\* gridIndex: "row,col" -> point
BuildGridIndex(points) ==
    [key \in { <<points[i].row, points[i].col>> : i \in 1..Len(points) } |->
        LET i == CHOOSE j \in 1..Len(points) :
                    /\ <<points[j].row, points[j].col>> = key
                    /\ \A m \in (j + 1)..Len(points) :
                          <<points[m].row, points[m].col>> # key
        IN points[i]]

\* ------------------------------------------------------------------------
\* Neighbours, bearings and turn cost
\* ------------------------------------------------------------------------
Directions ==
    << <<-1, 0>>, <<-1, 1>>, <<0, 1>>, <<1, 1>>,
       <<1, 0>>, <<1, -1>>, <<0, -1>>, <<-1, -1>> >>

\* getNeighbors over an explicit index; the result keeps the order of
\* `directions`.
getNeighborsNoDiagonals(index, point) ==
    LET keys == [d \in 1..4 |->
                    <<point.row + Directions[2 * d - 1][1],
                      point.col + Directions[2 * d - 1][2]>>]
        present == SelectSeq(keys, LAMBDA key : key \in DOMAIN index)
    IN [i \in 1..Len(present) |-> index[present[i]]]

getNeighborsForwardOnly(index, point) ==
    LET keys == [d \in 1..4 |->
                    <<point.row + Directions[d][1], point.col + Directions[d][2]>>]
        present == SelectSeq(keys, LAMBDA key : key \in DOMAIN index)
    IN [i \in 1..Len(present) |-> index[present[i]]]

getNeighbors(index, point) ==
    LET keys == [d \in 1..8 |->
                    <<point.row + Directions[d][1], point.col + Directions[d][2]>>]
        present == SelectSeq(keys, LAMBDA key : key \in DOMAIN index)
    IN [i \in 1..Len(present) |-> index[present[i]]]

Sign(v) == IF v > 0 THEN 1 ELSE IF v < 0 THEN 0 - 1 ELSE 0

\* Math.atan2 in millionths of a degree, by shift-and-add rotation of the
\* vector <<x, y>> onto the x axis: AtanTable[i] is atan(2^-(i-1)).  The
\* result is good to about a hundredth of a degree.
AtanTable ==
    <<45000000, 26565051, 14036243, 7125016, 3576334, 1789911, 895174, 447614,
      223811, 111906, 55953, 27976, 13988, 6994, 3497, 1749, 874, 437>>

RECURSIVE Pow2(_)
Pow2(i) == IF i = 0 THEN 1 ELSE 2 * Pow2(i - 1)

RECURSIVE Rotate(_, _, _, _)
Rotate(x, y, z, i) ==
    IF i > Len(AtanTable) THEN z
    ELSE IF y > 0
    THEN Rotate(x + (y \div Pow2(i - 1)), y - (x \div Pow2(i - 1)), z + AtanTable[i], i + 1)
    ELSE Rotate(x - (y \div Pow2(i - 1)), y + (x \div Pow2(i - 1)), z - AtanTable[i], i + 1)

RECURSIVE ScaleUp(_, _)
ScaleUp(x, y) ==
    IF Abs(x) >= Pow2(26) \/ Abs(y) >= Pow2(26) THEN <<x, y>>
    ELSE ScaleUp(2 * x, 2 * y)

atan2(y, x) ==
    LET v == ScaleUp(x, y)
    IN IF v[1] < 0 THEN Rotate(0 - v[1], 0 - v[2], 180000000, 1)
                   ELSE Rotate(v[1], v[2], 0, 1)

\* Compass bearing in thousandths of a degree, north = 0.  For the eight
\* lattice directions, the only ones the path finder asks for, the values
\* are those the great-circle formula gives on the lattice of GRID_CONFIG
\* (0.0018 by 0.0024 degrees near 44 N, a cell less wide than high): due
\* east comes out just under 90 degrees and due west just over 270,
\* because x = cos(lat1) sin(lat2) - sin(lat1) cos(lat2) cos(dLng) is
\* positive for two points of one latitude north of the equator.  Two
\* equal points give atan2(0, 0) = 0.  Any other direction (spline points,
\* spurs to a stop) goes through atan2 with y = dLng cos(lat) and
\* x = dLat, a longitude unit being 0.96648 of a latitude unit.
calculateBearing(lat1, lng1, lat2, lng2) ==
    LET ns == Sign(lat2 - lat1)
        ew == Sign(lng2 - lng1)
        onLattice == \/ lat2 = lat1
                     \/ lng2 = lng1
                     \/ Abs(lat2 - lat1) = Abs(lng2 - lng1)
    IN IF ~onLattice
       THEN ((atan2((lng2 - lng1) * 96648, (lat2 - lat1) * 100000) + 360000000)
                % 360000000) \div 1000
       ELSE CASE ns = 1 /\ ew = 0 -> 0
              [] ns = 1 /\ ew = 1 -> 44024
              [] ns = 0 /\ ew = 1 -> 89999
              [] ns = -1 /\ ew = 1 -> 135973
              [] ns = -1 /\ ew = 0 -> 180000
              [] ns = -1 /\ ew = -1 -> 224027
              [] ns = 0 /\ ew = -1 -> 270001
              [] ns = 1 /\ ew = -1 -> 315976
              [] OTHER -> 0

calculateTurnAngle(p1, p2, p3) ==
    LET bearing1 == calculateBearing(p1.lat, p1.lng, p2.lat, p2.lng)
        bearing2 == calculateBearing(p2.lat, p2.lng, p3.lat, p3.lng)
        angle == Abs(bearing2 - bearing1)
    IN IF angle > 180000 THEN 360000 - angle ELSE angle

\* enabled = ROUTING_CONFIG.turnPenalty.enabled at the time of the call
calculateTurnCost(enabled, turnAngle) ==
    IF ~enabled THEN 0
    ELSE LET angle == Abs(turnAngle)
         IN IF angle < 30000 THEN PenaltyGentle
            ELSE IF angle < 60000 THEN PenaltyModerate
            ELSE IF angle < 90000 THEN PenaltySharp
            ELSE PenaltyVerySharp

\* ------------------------------------------------------------------------
\* Nearest grid point
\* ------------------------------------------------------------------------
RECURSIVE NearestLoop(_, _, _, _, _, _)
NearestLoop(candidates, lat, lng, i, nearest, nearestDist) ==
    IF i > Len(candidates) THEN nearest
    ELSE LET dist == haversineDistance(lat, lng, candidates[i].lat, candidates[i].lng)
         IN IF dist < nearestDist
            THEN NearestLoop(candidates, lat, lng, i + 1, i, dist)
            ELSE NearestLoop(candidates, lat, lng, i + 1, nearest, nearestDist)

\* Position (in the scanned sequence) of the nearest point; 0 stands for
\* null.  The spatial-index branch scans spatialIndex.all(), the fallback
\* waterGrid.
findNearestGridPointFirstOnly(points, lat, lng) ==
    IF Len(points) = 0 THEN 0 ELSE 1

findNearestGridPoint(points, lat, lng) ==
    IF Len(points) = 0 THEN 0
    ELSE NearestLoop(points, lat, lng, 1, 0, Infinity)

\* ------------------------------------------------------------------------
\* A* path finding
\* ------------------------------------------------------------------------
\* Grid points are addressed by their position in waterGrid: the point
\* with id 'g<n>' (modelled as the number n) is points[n + 1].
\* A search state: openSet as the ids in insertion order (a JS Map),
\* closedSet, gScore, fScore and cameFrom (0 = unset); expanded lists the
\* points in the order in which the loop took them from the open set and
\* added them to closedSet (nodesExplored is its length).

NoPath(why) == [found |-> FALSE, path |-> <<>>, distance |-> 0, why |-> why]

ValidCoordinates(startLat, startLng, endLat, endLng) ==
    ~(\/ startLat < 0 - MaxLatitude \/ startLat > MaxLatitude
      \/ endLat < 0 - MaxLatitude \/ endLat > MaxLatitude
      \/ startLng < 0 - MaxLongitude \/ startLng > MaxLongitude
      \/ endLng < 0 - MaxLongitude \/ endLng > MaxLongitude)

\* The scan of the open set taking its newest entry, whatever its fScore.
LowestFNewest(open, fScore, i, current, lowestF) ==
    IF Len(open) = 0 THEN current ELSE open[Len(open)]

RECURSIVE LowestF(_, _, _, _, _)
LowestF(open, fScore, i, current, lowestF) ==
    IF i > Len(open) THEN current
    ELSE IF fScore[open[i]] < lowestF
         THEN LowestF(open, fScore, i + 1, open[i], fScore[open[i]])
         ELSE LowestF(open, fScore, i + 1, current, lowestF)

\* cameFrom[id] used as a condition: undefined is falsy, an id ('g0',
\* 'g1', ...) never is.  cameFrom holds point indices, 0 for undefined.
HasCameFrom(cameFrom, curr) == cameFrom[curr] # 0

\* while (cameFrom[curr]) { curr = cameFrom[curr]; path.unshift(...) }
RECURSIVE ReconstructPath(_, _, _, _)
ReconstructPath(points, cameFrom, curr, path) ==
    IF ~HasCameFrom(cameFrom, curr) THEN path
    ELSE ReconstructPath(points, cameFrom, cameFrom[curr],
                         <<points[cameFrom[curr]]>> \o path)

\* The total of the path with the turn penalty of every waypoint added.
RECURSIVE PathDistanceWithTurnCost(_, _)
PathDistanceWithTurnCost(path, i) ==
    IF i >= Len(path) THEN 0
    ELSE haversineDistance(path[i].lat, path[i].lng, path[i + 1].lat, path[i + 1].lng)
         + (IF i > 1
            THEN calculateTurnCost(TRUE, calculateTurnAngle(path[i - 1], path[i], path[i + 1]))
            ELSE 0)
         + PathDistanceWithTurnCost(path, i + 1)

\* for (i = 0; i < path.length - 1; i++) totalDistance += haversineDistance(...)
RECURSIVE PathDistance(_, _)
PathDistance(path, i) ==
    IF i >= Len(path) THEN 0
    ELSE haversineDistance(path[i].lat, path[i].lng, path[i + 1].lat, path[i + 1].lng)
         + PathDistance(path, i + 1)

\* The A* heuristic: great-circle distance from a grid point to the goal.
heuristicManhattan(p, goal) == Abs(p.lat - goal.lat) + Abs(p.lng - goal.lng)

heuristic(p, goal) == haversineDistance(p.lat, p.lng, goal.lat, goal.lng)

\* The neighbour loop without the closedSet test, an equal gScore counting
\* as an improvement: a closed point reached again at the same cost goes
\* back into the open set.
RECURSIVE RelaxNeighborsReopening(_, _, _, _, _, _, _)
RelaxNeighborsReopening(enabled, points, st, current, neighbors, k, endIdx) ==
    IF k > Len(neighbors) THEN st
    ELSE LET neighbor == neighbors[k]
             nb == neighbor.id + 1
         IN IF FALSE
            THEN RelaxNeighborsReopening(enabled, points, st, current, neighbors, k + 1, endIdx)
            ELSE LET distanceCost == haversineDistance(points[current].lat, points[current].lng,
                                                       neighbor.lat, neighbor.lng)
                     turnCost == IF enabled /\ HasCameFrom(st.cameFrom, current)
                                 THEN calculateTurnCost(enabled,
                                        calculateTurnAngle(points[st.cameFrom[current]],
                                                           points[current], neighbor))
                                 ELSE 0
                     tentativeG == st.g[current] + distanceCost + turnCost
                 IN IF tentativeG <= st.g[nb]
                    THEN RelaxNeighborsReopening(enabled, points,
                            [open |-> IF \E j \in 1..Len(st.open) : st.open[j] = nb
                                      THEN st.open ELSE Append(st.open, nb),
                             closed |-> st.closed,
                             expanded |-> st.expanded,
                             g |-> [st.g EXCEPT ![nb] = tentativeG],
                             f |-> [st.f EXCEPT ![nb] = tentativeG +
                                       heuristic(neighbor, points[endIdx])],
                             cameFrom |-> [st.cameFrom EXCEPT ![nb] = current]],
                            current, neighbors, k + 1, endIdx)
                    ELSE RelaxNeighborsReopening(enabled, points, st, current, neighbors, k + 1, endIdx)

\* The loop over getNeighbors(current): relax neighbour k and go on.
\* enabled = ROUTING_CONFIG.turnPenalty.enabled.
RECURSIVE RelaxNeighbors(_, _, _, _, _, _, _)
RelaxNeighbors(enabled, points, st, current, neighbors, k, endIdx) ==
    IF k > Len(neighbors) THEN st
    ELSE LET neighbor == neighbors[k]
             nb == neighbor.id + 1
         IN IF nb \in st.closed
            THEN RelaxNeighbors(enabled, points, st, current, neighbors, k + 1, endIdx)
            ELSE LET distanceCost == haversineDistance(points[current].lat, points[current].lng,
                                                       neighbor.lat, neighbor.lng)
                     turnCost == IF enabled /\ HasCameFrom(st.cameFrom, current)
                                 THEN calculateTurnCost(enabled,
                                        calculateTurnAngle(points[st.cameFrom[current]],
                                                           points[current], neighbor))
                                 ELSE 0
                     tentativeG == st.g[current] + distanceCost + turnCost
                 IN IF tentativeG < st.g[nb]
                    THEN RelaxNeighbors(enabled, points,
                            [open |-> IF \E j \in 1..Len(st.open) : st.open[j] = nb
                                      THEN st.open ELSE Append(st.open, nb),
                             closed |-> st.closed,
                             expanded |-> st.expanded,
                             g |-> [st.g EXCEPT ![nb] = tentativeG],
                             f |-> [st.f EXCEPT ![nb] = tentativeG +
                                       heuristic(neighbor, points[endIdx])],
                             cameFrom |-> [st.cameFrom EXCEPT ![nb] = current]],
                            current, neighbors, k + 1, endIdx)
                    ELSE RelaxNeighbors(enabled, points, st, current, neighbors, k + 1, endIdx)

\* The return after the loop: no path, all possible routes exhausted.
Exhausted(st) ==
    [found |-> FALSE, path |-> <<>>, distance |-> 0, why |-> "exhausted",
     expanded |-> st.expanded]

\* The while (openSet.size > 0) loop.
RECURSIVE SearchLoop(_, _, _, _, _)
SearchLoop(enabled, points, index, st, endIdx) ==
    IF Len(st.open) = 0 THEN Exhausted(st)
    ELSE LET current == LowestF(st.open, st.f, 1, 0, Infinity)
         IN IF current = 0 THEN Exhausted(st)
            ELSE IF current = endIdx
            THEN LET path == ReconstructPath(points, st.cameFrom, current,
                                             <<points[current]>>)
                 IN [found |-> TRUE, path |-> path,
                     distance |-> PathDistance(path, 1), why |-> "found",
                     cost |-> st.g[current], expanded |-> st.expanded]
            ELSE SearchLoop(enabled, points, index,
                    RelaxNeighbors(enabled, points,
                        [st EXCEPT !.open = SelectSeq(st.open, LAMBDA o : o # current),
                                   !.closed = st.closed \cup {current},
                                   !.expanded = Append(st.expanded, current)],
                        current, getNeighbors(index, points[current]), 1, endIdx),
                    endIdx)

\* findPath once the grid is there: points = waterGrid, index = gridIndex,
\* candidates = what the nearest-point query scans.
SearchFromPenalised(enabled, points, index, startIdx, endIdx) ==
    SearchLoop(TRUE, points, index,
        [open |-> <<startIdx>>,
         closed |-> {},
         expanded |-> <<>>,
         g |-> [i \in 1..Len(points) |-> IF i = startIdx THEN 0 ELSE Infinity],
         f |-> [i \in 1..Len(points) |->
                   IF i = startIdx
                   THEN heuristic(points[startIdx], points[endIdx])
                   ELSE Infinity],
         cameFrom |-> [i \in 1..Len(points) |-> 0]],
        endIdx)

SearchFrom(enabled, points, index, startIdx, endIdx) ==
    SearchLoop(enabled, points, index,
        [open |-> <<startIdx>>,
         closed |-> {},
         expanded |-> <<>>,
         g |-> [i \in 1..Len(points) |-> IF i = startIdx THEN 0 ELSE Infinity],
         f |-> [i \in 1..Len(points) |->
                   IF i = startIdx
                   THEN heuristic(points[startIdx], points[endIdx])
                   ELSE Infinity],
         cameFrom |-> [i \in 1..Len(points) |-> 0]],
        endIdx)

\* startDist > MAX_GRID_SEARCH_DISTANCE_KM, and the same test for endDist
TooFarFromRadius(dist) == dist >= MAX_GRID_SEARCH_DISTANCE_KM

TooFar(dist) == dist > MAX_GRID_SEARCH_DISTANCE_KM

findPathOnGrid(enabled, built, points, index, startLat, startLng, endLat, endLng) ==
    IF ~ValidCoordinates(startLat, startLng, endLat, endLng) THEN NoPath("invalid")
    ELSE IF ~built \/ Len(points) = 0 THEN NoPath("nogrid")
    ELSE LET startIdx == findNearestGridPoint(points, startLat, startLng)
             endIdx == findNearestGridPoint(points, endLat, endLng)
         IN IF startIdx = 0 \/ endIdx = 0 THEN NoPath("nogrid")
            ELSE IF TooFar(haversineDistance(startLat, startLng,
                        points[startIdx].lat, points[startIdx].lng))
                 THEN NoPath("far")
            ELSE IF TooFar(haversineDistance(endLat, endLng,
                        points[endIdx].lat, points[endIdx].lng))
                 THEN NoPath("far")
            ELSE SearchFrom(enabled, points, index, startIdx, endIdx)

\* What a caller of findPath receives: null from every failing return
\* statement, { path, distance } from the successful one.
findPathReturned(result) ==
    [isNull |-> ~result.found, path |-> result.path, distance |-> result.distance]

\* ------------------------------------------------------------------------
\* Path smoothing
\* ------------------------------------------------------------------------
\* Math.max(3, Math.floor(10 * (1 - tension))) with tension 0.9
SegmentsPerPoint == 3

\* catmullRomInterpolate at t = step / SegmentsPerPoint, over the common
\* denominator 2 * SegmentsPerPoint^3.  Every control coordinate (lattice
\* points and POIs) is a multiple of that denominator, so the division is
\* exact.
catmullRomInterpolate(p0, p1, p2, p3, step) ==
    LET s == SegmentsPerPoint
    IN (2 * p1 * s * s * s
        + (p2 - p0) * step * s * s
        + (2 * p0 - 5 * p1 + 4 * p2 - p3) * step * step * s
        + (3 * p1 - p0 - 3 * p2 + p3) * step * step * step) \div (2 * s * s * s)

\* Points are records [lat, lng].
catmullRomSplineEndsOnly(pts) ==
    IF Len(pts) <= 2 THEN pts ELSE <<pts[1], pts[Len(pts)]>>

catmullRomSpline(pts) ==
    IF Len(pts) <= 2 THEN pts
    ELSE [n \in 1..(1 + (Len(pts) - 1) * SegmentsPerPoint) |->
            IF n = 1 THEN pts[1]
            ELSE LET i == ((n - 2) \div SegmentsPerPoint) + 1
                     step == ((n - 2) % SegmentsPerPoint) + 1
                     p0 == IF i > 1 THEN pts[i - 1] ELSE pts[i]
                     p1 == pts[i]
                     p2 == pts[i + 1]
                     p3 == IF i < Len(pts) - 1 THEN pts[i + 2] ELSE pts[i + 1]
                 IN [lat |-> catmullRomInterpolate(p0.lat, p1.lat, p2.lat, p3.lat, step),
                     lng |-> catmullRomInterpolate(p0.lng, p1.lng, p2.lng, p3.lng, step)]]

\* Position of the point of pointArray nearest to target (0 for an empty
\* array); comparing squared distances orders like comparing distances.
RECURSIVE NearestInArrayLoop(_, _, _, _, _)
NearestInArrayLoop(target, pointArray, i, nearest, minDistSq) ==
    IF i > Len(pointArray) THEN nearest
    ELSE LET dLat == target.lat - pointArray[i].lat
             dLng == target.lng - pointArray[i].lng
             distSq == dLat * dLat + dLng * dLng
         IN IF nearest = 0 \/ distSq < minDistSq
            THEN NearestInArrayLoop(target, pointArray, i + 1, i, distSq)
            ELSE NearestInArrayLoop(target, pointArray, i + 1, nearest, minDistSq)

findNearestPointInArray(target, pointArray) ==
    NearestInArrayLoop(target, pointArray, 1, 0, 0)

\* The loop of validateSmoothedPath over the interior points.
RECURSIVE ValidateLoop(_, _, _, _, _, _)
ValidateLoop(wb, smoothedPath, originalPath, i, lastGoodPoint, acc) ==
    IF i > Len(smoothedPath) - 1 THEN acc
    ELSE LET point == smoothedPath[i]
         IN IF InWater(wb, point.lat, point.lng)
            THEN ValidateLoop(wb, smoothedPath, originalPath, i + 1, point,
                    [validated |-> Append(acc.validated, point),
                     landIssues |-> acc.landIssues])
            ELSE LET n == findNearestPointInArray(point, originalPath)
                 IN IF n # 0 /\ InWater(wb, originalPath[n].lat, originalPath[n].lng)
                    THEN ValidateLoop(wb, smoothedPath, originalPath, i + 1, originalPath[n],
                            [validated |-> Append(acc.validated, originalPath[n]),
                             landIssues |-> acc.landIssues + 1])
                    ELSE ValidateLoop(wb, smoothedPath, originalPath, i + 1, lastGoodPoint,
                            [validated |-> Append(acc.validated, lastGoodPoint),
                             landIssues |-> acc.landIssues + 1])

validateSmoothedPath(wb, smoothedPath, originalPath) ==
    LET body == ValidateLoop(wb, smoothedPath, originalPath, 2, smoothedPath[1],
                             [validated |-> <<smoothedPath[1]>>, landIssues |-> 0])
    IN [validated |-> Append(body.validated, smoothedPath[Len(smoothedPath)]),
        landIssues |-> body.landIssues]

\* smoothPath; simplifyFirst is false, so the spline runs on the full path.
smoothPath(wb, enabled, rawPoints) ==
    IF ~enabled \/ Len(rawPoints) < 3
    THEN [smoothed |-> rawPoints, landIssues |-> 0]
    ELSE LET validation == validateSmoothedPath(wb, catmullRomSpline(rawPoints), rawPoints)
         IN [smoothed |-> validation.validated, landIssues |-> validation.landIssues]

\* ------------------------------------------------------------------------
\* Leg routing
\* ------------------------------------------------------------------------
\* Length of a polyline of <<lat, lng>> pairs.
RECURSIVE PolylineLength(_, _)
PolylineLength(coordinates, i) ==
    IF i >= Len(coordinates) THEN 0
    ELSE haversineDistance(coordinates[i][1], coordinates[i][2],
                           coordinates[i + 1][1], coordinates[i + 1][2])
         + PolylineLength(coordinates, i + 1)

\* The distance calculateWaterRoute reports for a routed leg.
smoothedDistance(startGridDist, endGridDist, coordinates) ==
    startGridDist + endGridDist + PolylineLength(coordinates, 1)

\* The straight-line result calculateWaterRoute returns when findPath
\* found nothing.
FallbackRouteNotFlagged(startPoi, endPoi) ==
    [isNull |-> FALSE,
     coordinates |-> << <<startPoi.lat, startPoi.lng>>, <<endPoi.lat, endPoi.lng>> >>,
     distance |-> haversineDistance(startPoi.lat, startPoi.lng, endPoi.lat, endPoi.lng),
     path |-> <<>>,
     isFallback |-> FALSE]

FallbackRoute(startPoi, endPoi) ==
    [isNull |-> FALSE,
     coordinates |-> << <<startPoi.lat, startPoi.lng>>, <<endPoi.lat, endPoi.lng>> >>,
     distance |-> haversineDistance(startPoi.lat, startPoi.lng, endPoi.lat, endPoi.lng),
     path |-> <<>>,
     isFallback |-> TRUE]

\* analyzeTurns: the turns of more than 30 degrees at the interior points
\* of a path, each with its location, its angle rounded to whole degrees
\* (Math.round) and its severity, which is decided on the unrounded angle.
RECURSIVE AnalyzeLoop(_, _, _)
AnalyzeLoop(path, i, turns) ==
    IF i > Len(path) - 1 THEN turns
    ELSE LET angle == calculateTurnAngle(path[i - 1], path[i], path[i + 1])
         IN IF angle > 30000
            THEN AnalyzeLoop(path, i + 1,
                    Append(turns,
                        [at |-> <<path[i].lat, path[i].lng>>,
                         angle |-> (angle + 500) \div 1000,
                         severity |-> IF angle > 90000 THEN "very-sharp"
                                      ELSE IF angle > 60000 THEN "sharp"
                                      ELSE IF angle > 45000 THEN "moderate"
                                      ELSE "gentle"]))
            ELSE AnalyzeLoop(path, i + 1, turns)

analyzeTurns(path) == AnalyzeLoop(path, 2, <<>>)

\* calculateWaterRoute once findPath has answered with pathResult.
RouteFromPath(wb, enabled, pathResult, startPoi, endPoi) ==
    IF ~pathResult.found
    THEN FallbackRoute(startPoi, endPoi)
    ELSE LET finalPath == pathResult.path
             rawPoints == <<[lat |-> startPoi.lat, lng |-> startPoi.lng]>>
                          \o [i \in 1..Len(finalPath) |->
                                 [lat |-> finalPath[i].lat, lng |-> finalPath[i].lng]]
                          \o <<[lat |-> endPoi.lat, lng |-> endPoi.lng]>>
             smoothResult == smoothPath(wb, enabled, rawPoints)
             smoothedCoordinates == [i \in 1..Len(smoothResult.smoothed) |->
                                        <<smoothResult.smoothed[i].lat,
                                          smoothResult.smoothed[i].lng>>]
             startGridDist == haversineDistance(startPoi.lat, startPoi.lng,
                                                finalPath[1].lat, finalPath[1].lng)
             endGridDist == haversineDistance(endPoi.lat, endPoi.lng,
                                              finalPath[Len(finalPath)].lat,
                                              finalPath[Len(finalPath)].lng)
             turns == analyzeTurns(smoothResult.smoothed)
         IN [isNull |-> FALSE,
             coordinates |-> smoothedCoordinates,
             distance |-> smoothedDistance(startGridDist, endGridDist, smoothedCoordinates),
             path |-> [i \in 1..Len(finalPath) |-> finalPath[i].id],
             isFallback |-> FALSE,
             turns |-> turns,
             sharpTurns |-> Len(SelectSeq(turns,
                               LAMBDA t : t.severity \in {"sharp", "very-sharp"})),
             warnings |-> SelectSeq(turns, LAMBDA t : t.angle > 90)]

\* ------------------------------------------------------------------------
\* The grid cache and the engine entry points over explicit stores
\* ------------------------------------------------------------------------
NullBoundaries == [loaded |-> FALSE, bodies |-> <<>>]
NullDepths == [loaded |-> FALSE, samples |-> <<>>]
NullCache ==
    [grid |-> [built |-> FALSE, points |-> <<>>],
     index |-> [built |-> FALSE, cells |-> <<>>],
     spatial |-> [built |-> FALSE, items |-> <<>>]]

BoundaryStores == { NullBoundaries } \cup { [loaded |-> TRUE, bodies |-> f] : f \in SurveyFiles }
DepthStores == { NullDepths } \cup { [loaded |-> TRUE, samples |-> f] : f \in DepthFiles }
MinSafeDepths == { v[1] + v[2] : v \in VesselProfiles }

\* The lattice loop, tabulated over the stores and profiles of the model
\* (evaluated once, looked up afterwards).
GridTable ==
    [w \in BoundaryStores, d \in DepthStores, m \in MinSafeDepths |->
        BuildGridPoints(w, d, m)]

\* generateWaterGrid: the cache it leaves behind.  cache = [grid, index,
\* spatial] stands for waterGrid, gridIndex and spatialIndex.
generateWaterGridUncached(wb, dg, minSafeDepth, rbush, cache) ==
    IF ~wb.loaded \/ Len(wb.bodies) = 0 THEN cache
    ELSE LET points == GridTable[wb, dg, minSafeDepth]
         IN [grid |-> [built |-> TRUE, points |-> points],
             index |-> [built |-> TRUE, cells |-> BuildGridIndex(points)],
             spatial |-> IF rbush THEN [built |-> TRUE, items |-> points]
                                  ELSE cache.spatial]

generateWaterGrid(wb, dg, minSafeDepth, rbush, cache) ==
    IF cache.grid.built THEN cache
    ELSE IF ~wb.loaded \/ Len(wb.bodies) = 0 THEN cache
    ELSE LET points == GridTable[wb, dg, minSafeDepth]
         IN [grid |-> [built |-> TRUE, points |-> points],
             index |-> [built |-> TRUE, cells |-> BuildGridIndex(points)],
             spatial |-> IF rbush THEN [built |-> TRUE, items |-> points]
                                  ELSE cache.spatial]

\* findPath on the cache generateWaterGrid left; the nearest-point query
\* scans spatialIndex.all() when the index exists and waterGrid otherwise.
\* Both hold the same points, and every endpoint routed in the model has a
\* single nearest point, so the order of the scan does not matter here.
findPath(cache, startLat, startLng, endLat, endLng) ==
    findPathOnGrid(TurnPenaltyEnabled, cache.grid.built, cache.grid.points, cache.index.cells,
                   startLat, startLng, endLat, endLng)

\* calculateWaterRoute for two catalogue ids, on the cache findPath uses.
calculateWaterRoute(wb, enabled, cache, startPoiId, endPoiId) ==
    IF startPoiId \notin PoiIds \/ endPoiId \notin PoiIds
    THEN [isNull |-> TRUE, coordinates |-> <<>>, distance |-> 0, path |-> <<>>,
          isFallback |-> FALSE]
    ELSE LET startPoi == POINTS_OF_INTEREST[startPoiId]
             endPoi == POINTS_OF_INTEREST[endPoiId]
         IN IF startPoiId = endPoiId
            THEN [isNull |-> FALSE,
                  coordinates |-> << <<startPoi.lat, startPoi.lng>> >>,
                  distance |-> 0, path |-> <<>>, isFallback |-> FALSE]
            ELSE RouteFromPath(wb, enabled,
                    findPath(cache, startPoi.lat, startPoi.lng, endPoi.lat, endPoi.lng),
                    startPoi, endPoi)

\* Does calculateWaterRoute reach generateWaterGrid?  Only through
\* findPath, and there only once the coordinates have been accepted.
ReachesGrid(startPoiId, endPoiId) ==
    /\ startPoiId \in PoiIds
    /\ endPoiId \in PoiIds
    /\ startPoiId # endPoiId
    /\ ValidCoordinates(POINTS_OF_INTEREST[startPoiId].lat, POINTS_OF_INTEREST[startPoiId].lng,
                        POINTS_OF_INTEREST[endPoiId].lat, POINTS_OF_INTEREST[endPoiId].lng)

\* ------------------------------------------------------------------------
\* Tabulated results (evaluated once, looked up by the actions)
\* ------------------------------------------------------------------------
\* Every value waterGrid can take.
Grids ==
    { generateWaterGrid(w, d, m, FALSE, NullCache).grid :
        w \in BoundaryStores, d \in DepthStores, m \in MinSafeDepths }

\* The cache whose waterGrid is g: generateWaterGrid assigns gridIndex and
\* spatialIndex together with waterGrid, from the same points.
CacheOf(g, rbush) ==
    [grid |-> g,
     index |-> IF g.built THEN [built |-> TRUE, cells |-> BuildGridIndex(g.points)]
                          ELSE NullCache.index,
     spatial |-> IF g.built /\ rbush THEN [built |-> TRUE, items |-> g.points]
                                    ELSE NullCache.spatial]

PathTable ==
    [a \in PoiIds |-> [b \in PoiIds |-> [g \in Grids |->
        findPath(CacheOf(g, TRUE),
                 POINTS_OF_INTEREST[a].lat, POINTS_OF_INTEREST[a].lng,
                 POINTS_OF_INTEREST[b].lat, POINTS_OF_INTEREST[b].lng)]]]

\* findPath between the coordinates of two grid points, with turn
\* penalties enabled or disabled in ROUTING_CONFIG.
GridPathTable ==
    [g \in Grids |-> [e \in BOOLEAN |->
        [i \in 1..Len(g.points) |-> [j \in 1..Len(g.points) |->
            findPathOnGrid(e, g.built, g.points, CacheOf(g, TRUE).index.cells,
                           g.points[i].lat, g.points[i].lng,
                           g.points[j].lat, g.points[j].lng)]]]]

RouteTable ==
    [a \in PoiIds |-> [b \in PoiIds |-> [e \in BOOLEAN |->
        [w \in BoundaryStores |-> [g \in Grids |->
            calculateWaterRoute(w, e, CacheOf(g, TRUE), a, b)]]]]]

\* ------------------------------------------------------------------------
\* State
\* ------------------------------------------------------------------------
VARIABLES
    WATER_BOUNDARIES,   \* [loaded, bodies]; loaded = FALSE is null
    DEPTH_GRID,         \* [loaded, samples]; loaded = FALSE is null
    VESSEL_DRAFT,
    SAFETY_MARGIN,
    waterGrid,          \* [built, points]; built = FALSE is null
    gridIndex,          \* [built, cells]
    spatialIndex,       \* [built, items]
    smoothingEnabled,   \* ROUTING_CONFIG.smoothing.enabled
    RBush,              \* is the RBush library loaded?
    boundaryLoad,       \* loadWaterBoundaries: "idle" or "fetching"
    depthLoad,          \* loadDepthData: "idle" or "fetching"
    lastCall,           \* the latest call and what it returned
    stops,              \* state.stops
    routeLine,          \* state.routeLine: [drawn, size], size = number of coordinates
    tripResultsHidden,  \* elements.tripResults (totals and itinerary) has class hidden
    itinerary,          \* number of legs listed in elements.itinerary
    toast,              \* type of the latest toast
    routeCall,          \* what calculateRoute worked out in the latest handler
    weatherMap,         \* WeatherModule: has init stored the map?
    currentZone,        \* WeatherModule: currentZone
    weatherData,        \* WeatherModule: weatherData, [zone fetched for, winds present]
    weatherCache,       \* localStorage: zone key -> cached [zone, data], for the keys set
    weatherWidget,      \* what renderWeatherWidget drew last: [zoneName, data]
    refreshLoading,     \* the refresh button shows 'Loading...' and is disabled
    refreshing,         \* refresh() calls waiting at their await: [id, zone]
    refreshCalls,       \* number of refresh() calls that went on to fetch
    isWindOverlayVisible,
    windOverlayLayer    \* the wind data drawn on the map, NoWeather when none

engineVars ==
    <<WATER_BOUNDARIES, DEPTH_GRID, VESSEL_DRAFT, SAFETY_MARGIN, waterGrid, gridIndex,
      spatialIndex, boundaryLoad, depthLoad>>
configVars == <<smoothingEnabled, RBush>>
appVars == <<stops, routeLine, tripResultsHidden, itinerary, toast, routeCall>>
weatherVars ==
    <<weatherMap, currentZone, weatherData, weatherCache, weatherWidget, refreshLoading,
      refreshing, refreshCalls, isWindOverlayVisible, windOverlayLayer>>
vars == <<engineVars, configVars, lastCall, appVars, weatherVars>>

NoStop == "null"
NullRouteLine == [drawn |-> FALSE, size |-> 0]
NoRouteCall ==
    [outcome |-> "none", validStops |-> <<>>, routes |-> <<>>, legs |-> <<>>,
     allCoordinates |-> <<>>, totalDistanceKm |-> 0]

CurrentCache == [grid |-> waterGrid, index |-> gridIndex, spatial |-> spatialIndex]
MinimumSafeDepth == VESSEL_DRAFT + SAFETY_MARGIN

\* The cache after a call of generateWaterGrid in the current state
CacheAfterGenerate ==
    generateWaterGrid(WATER_BOUNDARIES, DEPTH_GRID, MinimumSafeDepth, RBush, CurrentCache)

SetCache(cache) ==
    /\ waterGrid' = cache.grid
    /\ gridIndex' = cache.index
    /\ spatialIndex' = cache.spatial

\* weatherData before any fetch (every field null) and its stand-in where
\* nothing is drawn.
NoWeather == [zone |-> "none", winds |-> FALSE]

\* WeatherModule as loaded: init not called yet.
WeatherInitial ==
    /\ weatherMap = FALSE
    /\ currentZone = "northern"
    /\ weatherData = NoWeather
    /\ weatherCache = << >>
    /\ weatherWidget = [zoneName |-> "none", data |-> NoWeather]
    /\ refreshLoading = FALSE
    /\ refreshing = {}
    /\ refreshCalls = 0
    /\ isWindOverlayVisible = FALSE
    /\ windOverlayLayer = NoWeather

AppInitial ==
    /\ routeLine = NullRouteLine
    /\ tripResultsHidden = TRUE
    /\ itinerary = 0
    /\ toast = "none"
    /\ routeCall = NoRouteCall

\* navigation.js as loaded: nothing fetched, nothing generated.
Init ==
    /\ WATER_BOUNDARIES = NullBoundaries
    /\ DEPTH_GRID = NullDepths
    /\ VESSEL_DRAFT = DefaultDraft
    /\ SAFETY_MARGIN = DefaultMargin
    /\ waterGrid = NullCache.grid
    /\ gridIndex = NullCache.index
    /\ spatialIndex = NullCache.spatial
    /\ smoothingEnabled \in BOOLEAN
    /\ RBush \in BOOLEAN
    /\ boundaryLoad = "idle"
    /\ depthLoad = "idle"
    /\ lastCall = [op |-> "none"]
    /\ stops = <<NoStop, NoStop>>
    /\ AppInitial
    /\ WeatherInitial

\* ------------------------------------------------------------------------
\* Engine operations (js/navigation.js)
\* ------------------------------------------------------------------------
\* Coordinates the water queries are asked about: lake, island (crossed by
\* the canal), canal east of the lake, shore, land between lake and pond,
\* pond.
Probes ==
    { <<0, 0>>, <<108, 108>>, <<108, 54>>, <<108, 270>>, <<108, -54>>,
      <<324, 0>>, <<432, 0>>, <<216, 216>> }

\* loadWaterBoundaries up to its first await: the store is emptied.
LoadWaterBoundariesBegin ==
    /\ boundaryLoad = "idle"
    /\ WATER_BOUNDARIES' = [loaded |-> TRUE, bodies |-> <<>>]
    /\ boundaryLoad' = "fetching"
    /\ lastCall' = [op |-> "loadWaterBoundaries"]
    /\ UNCHANGED <<DEPTH_GRID, VESSEL_DRAFT, SAFETY_MARGIN, waterGrid, gridIndex,
                   spatialIndex, depthLoad, configVars, weatherVars, appVars>>

\* loadWaterBoundaries after the fetch: the features of the file are
\* pushed; a failed fetch delivers none.
LoadWaterBoundariesEnd(file) ==
    /\ boundaryLoad = "fetching"
    /\ WATER_BOUNDARIES' = [loaded |-> TRUE, bodies |-> WATER_BOUNDARIES.bodies \o file]
    /\ boundaryLoad' = "idle"
    /\ lastCall' = [op |-> "loadWaterBoundaries"]
    /\ UNCHANGED <<DEPTH_GRID, VESSEL_DRAFT, SAFETY_MARGIN, waterGrid, gridIndex,
                   spatialIndex, depthLoad, configVars, weatherVars, appVars>>

\* loadDepthData up to its first await: a fresh, empty Map.
LoadDepthDataBegin ==
    /\ depthLoad = "idle"
    /\ DEPTH_GRID' = [loaded |-> TRUE, samples |-> <<>>]
    /\ depthLoad' = "fetching"
    /\ lastCall' = [op |-> "loadDepthData"]
    /\ UNCHANGED <<WATER_BOUNDARIES, VESSEL_DRAFT, SAFETY_MARGIN, waterGrid, gridIndex,
                   spatialIndex, boundaryLoad, configVars, weatherVars, appVars>>

\* loadDepthData after the fetch: the samples of the file are set.
LoadDepthDataEnd(file) ==
    /\ depthLoad = "fetching"
    /\ DEPTH_GRID' = [loaded |-> TRUE, samples |-> file @@ DEPTH_GRID.samples]
    /\ depthLoad' = "idle"
    /\ lastCall' = [op |-> "loadDepthData"]
    /\ UNCHANGED <<WATER_BOUNDARIES, VESSEL_DRAFT, SAFETY_MARGIN, waterGrid, gridIndex,
                   spatialIndex, boundaryLoad, configVars, weatherVars, appVars>>

\* updateVesselSettings(draft, margin): store the profile and drop the
\* generated grid, which is rebuilt on its next use.
UpdateVesselSettings(draft, margin) ==
    /\ VESSEL_DRAFT' = draft
    /\ SAFETY_MARGIN' = margin
    /\ SetCache(NullCache)
    /\ lastCall' = [op |-> "updateVesselSettings", minimumDepth |-> draft + margin]
    /\ UNCHANGED <<WATER_BOUNDARIES, DEPTH_GRID, boundaryLoad, depthLoad, configVars, weatherVars, appVars>>

GenerateWaterGrid ==
    /\ SetCache(CacheAfterGenerate)
    /\ lastCall' = [op |-> "generateWaterGrid", cached |-> waterGrid.built,
                    returned |-> CacheAfterGenerate.grid]
    /\ UNCHANGED <<WATER_BOUNDARIES, DEPTH_GRID, VESSEL_DRAFT, SAFETY_MARGIN,
                   boundaryLoad, depthLoad, configVars, weatherVars, appVars>>

IsInWater(lat, lng) ==
    /\ lastCall' = [op |-> "isInWater", lat |-> lat, lng |-> lng,
                    result |-> InWater(WATER_BOUNDARIES, lat, lng)]
    /\ UNCHANGED <<engineVars, configVars, weatherVars, appVars>>

GetWaterBodyName(lat, lng) ==
    /\ lastCall' = [op |-> "getWaterBodyName", lat |-> lat, lng |-> lng,
                    result |-> WaterBodyName(WATER_BOUNDARIES, lat, lng)]
    /\ UNCHANGED <<engineVars, configVars, weatherVars, appVars>>

\* findPath with generateWaterGrid moved above the two coordinate guards.
FindPathGeneratesFirst(from, to) ==
    /\ SetCache(CacheAfterGenerate)
    /\ lastCall' = [op |-> "findPath", from |-> from, to |-> to,
                    result |-> PathTable[from][to][CacheAfterGenerate.grid]]
    /\ UNCHANGED <<WATER_BOUNDARIES, DEPTH_GRID, VESSEL_DRAFT, SAFETY_MARGIN,
                   boundaryLoad, depthLoad, configVars, weatherVars, appVars>>

\* findPath between the coordinates of two catalogue entries.  The grid is
\* generated only after the coordinates have been accepted.
FindPath(from, to) ==
    LET a == POINTS_OF_INTEREST[from]
        b == POINTS_OF_INTEREST[to]
        cache == IF ValidCoordinates(a.lat, a.lng, b.lat, b.lng)
                 THEN CacheAfterGenerate ELSE CurrentCache
    IN /\ SetCache(cache)
       /\ lastCall' = [op |-> "findPath", from |-> from, to |-> to,
                       result |-> PathTable[from][to][cache.grid]]
       /\ UNCHANGED <<WATER_BOUNDARIES, DEPTH_GRID, VESSEL_DRAFT, SAFETY_MARGIN,
                      boundaryLoad, depthLoad, configVars, weatherVars, appVars>>

CalculateWaterRoute(from, to) ==
    LET cache == IF ReachesGrid(from, to) THEN CacheAfterGenerate ELSE CurrentCache
    IN /\ SetCache(cache)
       /\ lastCall' = [op |-> "calculateWaterRoute", from |-> from, to |-> to,
                       result |-> RouteTable[from][to][smoothingEnabled]
                                                    [WATER_BOUNDARIES][cache.grid]]
       /\ UNCHANGED <<WATER_BOUNDARIES, DEPTH_GRID, VESSEL_DRAFT, SAFETY_MARGIN,
                      boundaryLoad, depthLoad, configVars, weatherVars, appVars>>

\* The legs the engine is asked for: routed in both directions, across the
\* land between lake and pond, to a stop far from water, from and to
\* rejected coordinates, from a stop to itself, and round the corner from
\* the marina (east onto the lake) to the pier (due south).
RoutePairs ==
    { <<"marina", "anchorage">>, <<"anchorage", "marina">>, <<"marina", "pond">>,
      <<"pond", "anchorage">>, <<"marina", "hudson">>, <<"hudson", "anchorage">>,
      <<"marina", "broken">>, <<"broken", "anchorage">>, <<"marina", "marina">>,
      <<"pier", "anchorage">>, <<"marina", "pier">> }

\* The routing engine: loading, vessel settings, grid generation, routing.
Next ==
    \/ LoadWaterBoundariesBegin
    \/ \E file \in BoundaryFiles : LoadWaterBoundariesEnd(file)
    \/ LoadDepthDataBegin
    \/ \E file \in DepthFiles : LoadDepthDataEnd(file)
    \/ \E v \in VesselProfiles : UpdateVesselSettings(v[1], v[2])
    \/ GenerateWaterGrid
    \/ \E p \in RoutePairs : FindPath(p[1], p[2])
    \/ \E p \in RoutePairs : CalculateWaterRoute(p[1], p[2])

Spec == Init /\ [][Next]_vars

\* The boundary store and its queries alone.
QueryNext ==
    \/ LoadWaterBoundariesBegin
    \/ \E file \in BoundaryFiles : LoadWaterBoundariesEnd(file)
    \/ \E p \in Probes : IsInWater(p[1], p[2])
    \/ \E p \in Probes : GetWaterBodyName(p[1], p[2])

QuerySpec == Init /\ [][QueryNext]_vars

\* The grid and its queries alone.  The stores hold what the loads left
\* (nothing, for a load that never ran or failed); the grid is not
\* generated yet.
GridInit ==
    /\ WATER_BOUNDARIES \in BoundaryStores
    /\ DEPTH_GRID \in DepthStores
    /\ \E v \in VesselProfiles : VESSEL_DRAFT = v[1] /\ SAFETY_MARGIN = v[2]
    /\ waterGrid = NullCache.grid
    /\ gridIndex = NullCache.index
    /\ spatialIndex = NullCache.spatial
    /\ smoothingEnabled = FALSE
    /\ RBush \in BOOLEAN
    /\ boundaryLoad = "idle"
    /\ depthLoad = "idle"
    /\ lastCall = [op |-> "none"]
    /\ stops = <<NoStop, NoStop>>
    /\ AppInitial
    /\ WeatherInitial

\* findPath from the coordinate of grid point i to that of grid point j,
\* with ROUTING_CONFIG.turnPenalty.enabled = enabled.  The grid is cached,
\* so generateWaterGrid returns it unchanged.
FindPathBetween(i, j, enabled) ==
    /\ waterGrid.built
    /\ i \in 1..Len(waterGrid.points)
    /\ j \in 1..Len(waterGrid.points)
    /\ lastCall' = [op |-> "findPathBetween", from |-> i, to |-> j,
                    enabled |-> enabled,
                    result |-> GridPathTable[waterGrid][enabled][i][j]]
    /\ UNCHANGED <<engineVars, configVars, weatherVars, appVars>>

\* spatialIndex.all(): every item of the tree, in the order of the tree
\* walk.  RBush.load packs the items into the tree by their bounding boxes,
\* so the order is the library's and not that of waterGrid; the model lets
\* it be the order of insertion or the reverse.
Reverse(seq) == [i \in 1..Len(seq) |-> seq[Len(seq) + 1 - i]]

spatialIndexAll(items) == { items, Reverse(items) }

\* Coordinates the nearest-point query is asked about: the marina ashore,
\* the middle of the island (equally far from four grid points), a grid
\* point itself, and open water half-way between two grid points.
NearestProbes == { <<108, -54>>, <<108, 108>>, <<0, 0>>, <<54, 0>> }

\* What findNearestGridPoint returns after scanning `candidates`: the
\* point as a one-element tuple, the empty tuple for null.
NearestAmong(candidates, lat, lng) ==
    IF findNearestGridPoint(candidates, lat, lng) = 0 THEN <<>>
    ELSE <<candidates[findNearestGridPoint(candidates, lat, lng)]>>

\* findNearestGridPoint(lat, lng): generate the grid, then scan the spatial
\* index if there is one and waterGrid if not.
FindNearestGridPoint(lat, lng) ==
    /\ SetCache(CacheAfterGenerate)
    /\ \E candidates \in
            IF ~CacheAfterGenerate.grid.built THEN { <<>> }
            ELSE IF CacheAfterGenerate.spatial.built
            THEN spatialIndexAll(CacheAfterGenerate.spatial.items)
            ELSE { CacheAfterGenerate.grid.points } :
          lastCall' = [op |-> "findNearestGridPoint", lat |-> lat, lng |-> lng,
                       indexed |-> CacheAfterGenerate.spatial.built,
                       returned |-> NearestAmong(candidates, lat, lng)]
    /\ UNCHANGED <<WATER_BOUNDARIES, DEPTH_GRID, VESSEL_DRAFT, SAFETY_MARGIN,
                   boundaryLoad, depthLoad, configVars, weatherVars, appVars>>

\* getNeighbors(point) for the i-th point of the generated grid.
GetNeighbors(i) ==
    /\ waterGrid.built
    /\ i \in 1..Len(waterGrid.points)
    /\ lastCall' = [op |-> "getNeighbors", of |-> i,
                    returned |-> getNeighbors(gridIndex.cells, waterGrid.points[i])]
    /\ UNCHANGED <<engineVars, configVars, weatherVars, appVars>>

GridNext ==
    \/ GenerateWaterGrid
    \/ \E i \in 1..Len(waterGrid.points) : GetNeighbors(i)
    \/ \E p \in NearestProbes : FindNearestGridPoint(p[1], p[2])
    \/ \E i, j \in 1..Len(waterGrid.points), enabled \in BOOLEAN :
          FindPathBetween(i, j, enabled)

GridSpec == GridInit /\ [][GridNext]_vars

\* ------------------------------------------------------------------------
\* The route planner (js/app.js)
\* ------------------------------------------------------------------------
\* calculateDistance: throws on coordinates out of range, else the same
\* great-circle distance as haversineDistance.
calculateDistance(lat1, lng1, lat2, lng2) ==
    [threw |-> ~ValidCoordinates(lat1, lng1, lat2, lng2),
     value |-> haversineDistance(lat1, lng1, lat2, lng2)]

InsufficientStopsOnlyWhenEmpty(validStops) == Len(validStops) < 1

InsufficientStops(validStops) == Len(validStops) < 2

\* One pass of the for loop of calculateRoute: run holds the locals (legs,
\* allCoordinates, totalDistanceKm), the grid cache, what the calls of
\* calculateWaterRoute returned, and whether calculateDistance has thrown;
\* routeResult is what calculateWaterRoute returned for leg i, cache the
\* grid cache it left.
RouteLeg(i, startPoi, endPoi, cache, routeResult, run) ==
    IF ~routeResult.isNull /\ ~routeResult.isFallback
    THEN [cache |-> cache,
          threw |-> FALSE,
          routes |-> Append(run.routes, routeResult),
          legs |-> Append(run.legs,
                     [from |-> startPoi.id, to |-> endPoi.id,
                      distanceKm |-> routeResult.distance]),
          allCoordinates |-> IF i = 1 THEN routeResult.coordinates
                             ELSE run.allCoordinates \o Tail(routeResult.coordinates),
          totalDistanceKm |-> run.totalDistanceKm + routeResult.distance]
    ELSE IF calculateDistance(startPoi.lat, startPoi.lng, endPoi.lat, endPoi.lng).threw
    THEN [run EXCEPT !.cache = cache, !.threw = TRUE,
                     !.routes = Append(run.routes, routeResult)]
    ELSE [cache |-> cache,
          threw |-> FALSE,
          routes |-> Append(run.routes, routeResult),
          legs |-> Append(run.legs,
                     [from |-> startPoi.id, to |-> endPoi.id,
                      distanceKm |-> calculateDistance(startPoi.lat, startPoi.lng,
                                                       endPoi.lat, endPoi.lng).value]),
          allCoordinates |-> (IF i = 1
                              THEN Append(run.allCoordinates, <<startPoi.lat, startPoi.lng>>)
                              ELSE run.allCoordinates)
                             \o << <<endPoi.lat, endPoi.lng>> >>,
          totalDistanceKm |-> run.totalDistanceKm
                              + calculateDistance(startPoi.lat, startPoi.lng,
                                                  endPoi.lat, endPoi.lng).value]

\* The call of calculateWaterRoute for the leg from `from` to `to`, on the
\* grid cache the call leaves.
RouteLegOn(i, from, to, cache, run) ==
    RouteLeg(i, POINTS_OF_INTEREST[from], POINTS_OF_INTEREST[to], cache,
             RouteTable[from][to][smoothingEnabled][WATER_BOUNDARIES][cache.grid], run)

\* The for loop of calculateRoute over the legs, from leg i on; a throw
\* ends it.
RECURSIVE RouteLoop(_, _, _)
RouteLoop(validStops, i, run) ==
    IF run.threw \/ i > Len(validStops) - 1 THEN run
    ELSE RouteLoop(validStops, i + 1,
            RouteLegOn(i, validStops[i], validStops[i + 1],
                       IF ReachesGrid(validStops[i], validStops[i + 1])
                       THEN generateWaterGrid(WATER_BOUNDARIES, DEPTH_GRID, MinimumSafeDepth,
                                              RBush, run.cache)
                       ELSE run.cache,
                       run))

\* What calculateRoute worked out.
RouteReport(outcome, validStops, run) ==
    [outcome |-> outcome, validStops |-> validStops, routes |-> run.routes,
     legs |-> run.legs, allCoordinates |-> run.allCoordinates,
     totalDistanceKm |-> run.totalDistanceKm]

\* calculateRoute from its loop on: validStops are the selected stops, run
\* is the loop's result.
RouteDisplay(validStops, run) ==
    IF run.threw
    THEN \* calculateDistance threw inside the loop: nothing is displayed
         /\ SetCache(run.cache)
         /\ routeCall' = RouteReport("threw", validStops, run)
         /\ UNCHANGED <<toast, tripResultsHidden, itinerary, routeLine>>
    ELSE /\ SetCache(run.cache)
         /\ itinerary' = Len(run.legs)
         /\ tripResultsHidden' = FALSE
         /\ IF Len(run.allCoordinates) > 0
            THEN /\ routeLine' = [drawn |-> TRUE, size |-> Len(run.allCoordinates)]
                 /\ routeCall' = RouteReport("completed", validStops, run)
            ELSE \* drawRouteLine removes the old line, then reads
                 \* startPoi.lat of null
                 /\ routeLine' = [routeLine EXCEPT !.drawn = FALSE]
                 /\ routeCall' = RouteReport("threw", validStops, run)
         /\ UNCHANGED toast

\* calculateRoute on the selected stops.
RoutePlan(validStops) ==
    IF InsufficientStops(validStops)
    THEN \* showToast(..., 'error'); clearRoute(); return
         /\ toast' = "error"
         /\ tripResultsHidden' = TRUE
         /\ itinerary' = 0
         /\ routeLine' = NullRouteLine
         /\ routeCall' = [NoRouteCall EXCEPT !.outcome = "insufficient",
                                             !.validStops = validStops]
         /\ UNCHANGED <<waterGrid, gridIndex, spatialIndex>>
    ELSE RouteDisplay(validStops,
            RouteLoop(validStops, 1,
                [cache |-> CurrentCache, threw |-> FALSE, routes |-> <<>>,
                 legs |-> <<>>, allCoordinates |-> <<>>, totalDistanceKm |-> 0]))

\* calculateRoute on the stop list the handler has just stored.
CalculateRoute(newStops) == RoutePlan(SelectSeq(newStops, LAMBDA s : s # NoStop))

\* ------------------------------------------------------------------------
\* Stop list handlers (js/app.js)
\* ------------------------------------------------------------------------
DEFAULT_START_LOCATION == "marina"

\* splice(at, 0, item): insert item so that it becomes element `at` (1-based)
InsertAt(seq, at, item) ==
    SubSeq(seq, 1, at - 1) \o <<item>> \o SubSeq(seq, at, Len(seq))

\* splice(at, 1): remove element `at` (1-based)
RemoveAt(seq, at) ==
    SubSeq(seq, 1, at - 1) \o SubSeq(seq, at + 1, Len(seq))

engineStores == <<WATER_BOUNDARIES, DEPTH_GRID, VESSEL_DRAFT, SAFETY_MARGIN,
                  boundaryLoad, depthLoad>>

\* addStop: a new empty stop before the end; the route is not recalculated.
AddStop ==
    /\ Len(stops) < MaxStops
    /\ stops' = InsertAt(stops, Len(stops), NoStop)
    /\ routeCall' = NoRouteCall
    /\ UNCHANGED <<engineVars, configVars, weatherVars, lastCall, routeLine, tripResultsHidden,
                   itinerary, toast>>

\* removeStop without the test for Start and End.
RemoveStopAnywhere(at) ==
    IF at >= 1 /\ at <= Len(stops)
    THEN /\ stops' = RemoveAt(stops, at)
         /\ CalculateRoute(stops')
         /\ UNCHANGED <<engineStores, configVars, weatherVars, lastCall>>
    ELSE /\ routeCall' = NoRouteCall
         /\ UNCHANGED <<engineVars, configVars, weatherVars, lastCall, stops, routeLine,
                        tripResultsHidden, itinerary, toast>>

\* removeStop(index), index 1-based here: only a middle stop is removed.
RemoveStop(at) ==
    IF at > 1 /\ at < Len(stops)
    THEN /\ stops' = RemoveAt(stops, at)
         /\ CalculateRoute(stops')
         /\ UNCHANGED <<engineStores, configVars, weatherVars, lastCall>>
    ELSE /\ routeCall' = NoRouteCall
         /\ UNCHANGED <<engineVars, configVars, weatherVars, lastCall, stops, routeLine,
                        tripResultsHidden, itinerary, toast>>

\* updateStop(index, poiId): poiId || null is stored, the route recalculated.
UpdateStop(at, poiId) ==
    /\ stops' = [stops EXCEPT ![at] = poiId]
    /\ CalculateRoute(stops')
    /\ UNCHANGED <<engineStores, configVars, weatherVars, lastCall>>

\* handleDrop with draggedIndex = from and targetIndex = to.
HandleDrop(from, to) ==
    IF from # to
    THEN /\ stops' = InsertAt(RemoveAt(stops, from), to, stops[from])
         /\ CalculateRoute(stops')
         /\ UNCHANGED <<engineStores, configVars, weatherVars, lastCall>>
    ELSE /\ routeCall' = NoRouteCall
         /\ UNCHANGED <<engineVars, configVars, weatherVars, lastCall, stops, routeLine,
                        tripResultsHidden, itinerary, toast>>

\* clearSelection: two empty stops, results hidden, line removed.
ClearSelection ==
    /\ stops' = <<NoStop, NoStop>>
    /\ tripResultsHidden' = TRUE
    /\ routeLine' = NullRouteLine
    /\ routeCall' = NoRouteCall
    /\ UNCHANGED <<engineVars, configVars, weatherVars, lastCall, itinerary, toast>>

\* The application once init() has run: the boundary load has finished (it
\* may have failed and left its store empty), the depth load has delivered
\* no samples, the default start is set, the routing configuration is the
\* shipped one.
AppInit ==
    /\ \E file \in { <<>>, <<LakeFeature, PondFeature, CanalFeature>> } :
           WATER_BOUNDARIES = [loaded |-> TRUE, bodies |-> file]
    /\ DEPTH_GRID = [loaded |-> TRUE, samples |-> <<>>]
    /\ VESSEL_DRAFT = DefaultDraft
    /\ SAFETY_MARGIN = DefaultMargin
    /\ waterGrid = NullCache.grid
    /\ gridIndex = NullCache.index
    /\ spatialIndex = NullCache.spatial
    /\ smoothingEnabled = FALSE
    /\ RBush = TRUE
    /\ boundaryLoad = "idle"
    /\ depthLoad = "idle"
    /\ lastCall = [op |-> "none"]
    /\ stops = <<DEFAULT_START_LOCATION, NoStop>>
    /\ AppInitial
    /\ WeatherInitial

AppNext ==
    \/ AddStop
    \/ \E at \in 1..Len(stops) : RemoveStop(at)
    \/ \E at \in 1..Len(stops), poiId \in PoiIds \cup {NoStop} : UpdateStop(at, poiId)
    \/ \E from \in 1..Len(stops), to \in 1..Len(stops) : HandleDrop(from, to)
    \/ ClearSelection

AppSpec == AppInit /\ [][AppNext]_vars

\* ------------------------------------------------------------------------
\* The weather module (WeatherModule)
\* ------------------------------------------------------------------------
\* The keys of ZONES, and an id the zone selector or a caller may pass that
\* is not among them.
ZONES == { "northern", "southern" }
ZoneIds == ZONES \cup { "inland" }

\* refresh() calls the model follows through their fetches.
MaxRefreshCalls == 4

\* refresh() up to its await, with currentZone = zone: an unknown zone
\* returns at once; otherwise the button shows loading and the four
\* fetches for that zone's station and centre are under way.
RefreshBegin(zone) ==
    IF zone \notin ZONES
    THEN UNCHANGED <<refreshLoading, refreshing, refreshCalls>>
    ELSE /\ refreshLoading' = TRUE
         /\ refreshing' = refreshing \cup { [id |-> refreshCalls + 1, zone |-> zone] }
         /\ refreshCalls' = refreshCalls + 1

\* updateWindOverlay with weatherData = data: nothing without a map or
\* without wind data, else the layer is redrawn from the data.
WindOverlayOf(data) ==
    IF ~weatherMap \/ ~data.winds THEN windOverlayLayer ELSE data

\* init(leafletMap, zone): store the map and the zone, clear the cached
\* weather, refresh.
WeatherInit(zone) ==
    /\ ~weatherMap
    /\ refreshCalls < MaxRefreshCalls
    /\ weatherMap' = TRUE
    /\ currentZone' = zone
    /\ weatherCache' = << >>
    /\ RefreshBegin(zone)
    /\ UNCHANGED <<weatherData, weatherWidget, isWindOverlayVisible, windOverlayLayer>>
    /\ UNCHANGED <<engineVars, configVars, lastCall, appVars>>

\* refresh(), from the refresh button or the interval timer.
Refresh ==
    /\ weatherMap
    /\ refreshCalls < MaxRefreshCalls
    /\ RefreshBegin(currentZone)
    /\ UNCHANGED <<weatherMap, currentZone, weatherData, weatherCache, weatherWidget,
                   isWindOverlayVisible, windOverlayLayer>>
    /\ UNCHANGED <<engineVars, configVars, lastCall, appVars>>

\* setZone(zoneId): a known zone becomes current and is refreshed.
SetZone(zoneId) ==
    /\ weatherMap
    /\ refreshCalls < MaxRefreshCalls
    /\ IF zoneId \in ZONES
       THEN /\ currentZone' = zoneId
            /\ RefreshBegin(zoneId)
       ELSE UNCHANGED <<currentZone, refreshLoading, refreshing, refreshCalls>>
    /\ UNCHANGED <<weatherMap, weatherData, weatherCache, weatherWidget,
                   isWindOverlayVisible, windOverlayLayer>>
    /\ UNCHANGED <<engineVars, configVars, lastCall, appVars>>

\* cacheWeatherData: the data goes under the key of currentZone, labelled
\* with currentZone.
cacheWeatherData(cache, zone, data) ==
    [key \in DOMAIN cache \cup { zone } |->
        IF key = zone THEN [zone |-> zone, data |-> data] ELSE cache[key]]

\* refresh() after its await: the fetches of call r have answered (each
\* with data or with null; winds tells which for the wind data).  The
\* data is stored, cached, drawn, the overlay updated, the button reset.
RefreshEnd(r, winds) ==
    LET data == [zone |-> r.zone, winds |-> winds]
    IN /\ r \in refreshing
       /\ weatherData' = data
       /\ weatherCache' = cacheWeatherData(weatherCache, currentZone, data)
       /\ weatherWidget' = [zoneName |-> currentZone, data |-> data]
       /\ windOverlayLayer' = IF isWindOverlayVisible THEN WindOverlayOf(data)
                                                      ELSE windOverlayLayer
       /\ refreshLoading' = FALSE
       /\ refreshing' = refreshing \ { r }
       /\ UNCHANGED <<weatherMap, currentZone, refreshCalls, isWindOverlayVisible>>
       /\ UNCHANGED <<engineVars, configVars, lastCall, appVars>>

\* toggleWindOverlay(show)
ToggleWindOverlay(show) ==
    /\ isWindOverlayVisible' = show
    /\ windOverlayLayer' = IF show THEN WindOverlayOf(weatherData) ELSE NoWeather
    /\ UNCHANGED <<weatherMap, currentZone, weatherData, weatherCache, weatherWidget,
                   refreshLoading, refreshing, refreshCalls>>
    /\ UNCHANGED <<engineVars, configVars, lastCall, appVars>>

WeatherNext ==
    \/ \E zone \in ZoneIds : WeatherInit(zone)
    \/ Refresh
    \/ \E zoneId \in ZoneIds : SetZone(zoneId)
    \/ \E r \in refreshing, winds \in BOOLEAN : RefreshEnd(r, winds)
    \/ \E show \in BOOLEAN : ToggleWindOverlay(show)

WeatherSpec == Init /\ [][WeatherNext]_vars

\* ------------------------------------------------------------------------
\* Properties of the routing engine (Spec, QuerySpec)
\* ------------------------------------------------------------------------
\* The latest engine call returned a leg routed over the grid.
RoutedLegReturned ==
    /\ lastCall.op = "calculateWaterRoute"
    /\ lastCall.from # lastCall.to
    /\ ~lastCall.result.isNull
    /\ ~lastCall.result.isFallback

\* waterGrid is what the lattice loop yields on the stores and the vessel
\* profile as they are now.
GridIsCurrent ==
    waterGrid.built =>
        waterGrid.points = BuildGridPoints(WATER_BOUNDARIES, DEPTH_GRID, MinimumSafeDepth)

\* C1: every coordinate of a routed leg returned by calculateWaterRoute,
\* the first and the last included, satisfies isInWater, with smoothing
\* enabled or disabled.
C1_RoutedLegInWater ==
    RoutedLegReturned /\ GridIsCurrent =>
        \A i \in 1..Len(lastCall.result.coordinates) :
            InWater(WATER_BOUNDARIES, lastCall.result.coordinates[i][1],
                    lastCall.result.coordinates[i][2])

\* p is a grid point no other grid point is nearer to (lat, lng) than.
IsNearestOnGrid(p, lat, lng) ==
    \A k \in 1..Len(waterGrid.points) :
        haversineDistance(lat, lng, p.lat, p.lng)
            <= haversineDistance(lat, lng, waterGrid.points[k].lat, waterGrid.points[k].lng)

C3_GridPointsNavigable ==
    /\ lastCall.op = "generateWaterGrid"
    /\ lastCall.returned.built
    /\ boundaryLoad = "idle"
    /\ depthLoad = "idle"
    =>
        \A k \in 1..Len(lastCall.returned.points) :
            LET p == lastCall.returned.points[k]
            IN /\ InWater(WATER_BOUNDARIES, p.lat, p.lng)
               /\ DEPTH_GRID.loaded /\ p.id \in DOMAIN DEPTH_GRID.samples =>
                     DEPTH_GRID.samples[p.id] >= MinimumSafeDepth

\* On which side of the edge from a to b (GeoJSON <<lng, lat>> vertices)
\* the point lies: positive to its left, negative to its right.
SideOfEdge(a, b, lat, lng) ==
    (b[1] - a[1]) * (lat - a[2]) - (b[2] - a[2]) * (lng - a[1])

\* Strictly inside a convex ring: on the same side of every edge.  All
\* rings of the boundary data are convex.
InsideConvexRing(ring, lat, lng) ==
    LET n == Len(ring)
        side(i) == SideOfEdge(ring[i], ring[(i % n) + 1], lat, lng)
    IN \/ \A i \in 1..n : side(i) > 0
       \/ \A i \in 1..n : side(i) < 0

\* The body has the point inside its outer ring and inside none of its
\* own hole rings.
BodyAccepts(body, lat, lng) ==
    /\ InsideConvexRing(body.outer, lat, lng)
    /\ \A h \in 1..Len(body.holes) : ~InsideConvexRing(body.holes[h], lat, lng)

NoBoundaryData == ~WATER_BOUNDARIES.loaded \/ Len(WATER_BOUNDARIES.bodies) = 0

\* C4: isInWater is true exactly when some loaded water body has the point
\* inside its outer ring and inside none of its own holes, each body on
\* its own; without boundary data isInWater is false and getWaterBodyName
\* null.
C4_IsInWaterIffSomeBodyAccepts ==
    /\ lastCall.op = "isInWater" =>
          lastCall.result =
              (/\ WATER_BOUNDARIES.loaded
               /\ \E b \in 1..Len(WATER_BOUNDARIES.bodies) :
                     BodyAccepts(WATER_BOUNDARIES.bodies[b], lastCall.lat, lastCall.lng))
    /\ lastCall.op = "isInWater" /\ NoBoundaryData => lastCall.result = FALSE
    /\ lastCall.op = "getWaterBodyName" /\ NoBoundaryData => lastCall.result = "null"

\* The centre of the island, inside the hole of the lake, is reported as
\* water because the canal accepts it.
C4_CanalThroughIsland ==
    /\ lastCall.op = "isInWater"
    /\ lastCall.lat = 108
    /\ lastCall.lng = 108
    /\ lastCall.result = TRUE
    /\ Len(WATER_BOUNDARIES.bodies) = 3
    /\ InsideConvexRing(IslandRing, 108, 108)

\* What findPath answered inside the latest calculateWaterRoute: it ran on
\* the grid the call left behind.
PathOfLatestRoute == PathTable[lastCall.from][lastCall.to][waterGrid]

\* C5: when findPath returns no path for a leg, the leg's coordinates are
\* the two raw endpoints, its distance is the great-circle distance
\* between them and isFallback is true; isFallback is true for no routed
\* leg.
C5_FallbackLeg ==
    lastCall.op = "calculateWaterRoute" /\ lastCall.from # lastCall.to =>
        LET start == POINTS_OF_INTEREST[lastCall.from]
            end == POINTS_OF_INTEREST[lastCall.to]
        IN IF PathOfLatestRoute.found
           THEN ~lastCall.result.isFallback
           ELSE /\ lastCall.result.coordinates =
                      << <<start.lat, start.lng>>, <<end.lat, end.lng>> >>
                /\ lastCall.result.distance =
                      haversineDistance(start.lat, start.lng, end.lat, end.lng)
                /\ lastCall.result.isFallback

\* A leg from the lake to the pond: both ends snap to the grid, the grid
\* is not connected, the leg falls back.
C5_DisconnectedLegFellBack ==
    /\ lastCall.op = "calculateWaterRoute"
    /\ lastCall.from = "marina"
    /\ lastCall.to = "pond"
    /\ PathOfLatestRoute.why = "exhausted"
    /\ lastCall.result.isFallback
    /\ Len(lastCall.result.coordinates) = 2

\* C9: with smoothing disabled a routed leg's distance is the start spur
\* plus the grid-path distance plus the end spur, each counted once: the
\* length of the returned coordinate polyline.
C9_RoutedDistanceCountsSpursOnce ==
    RoutedLegReturned /\ ~smoothingEnabled =>
        LET start == POINTS_OF_INTEREST[lastCall.from]
            end == POINTS_OF_INTEREST[lastCall.to]
            path == PathOfLatestRoute.path
            startSpur == haversineDistance(start.lat, start.lng, path[1].lat, path[1].lng)
            endSpur == haversineDistance(end.lat, end.lng,
                                         path[Len(path)].lat, path[Len(path)].lng)
        IN /\ lastCall.result.distance = startSpur + PathOfLatestRoute.distance + endSpur
           /\ lastCall.result.distance = PolylineLength(lastCall.result.coordinates, 1)

\* C10: the grid in use is always the one filtered with the current vessel
\* profile and the current boundary and depth data: a change of profile or
\* a reload invalidates the cached grid and the next use rebuilds it.
C10_GridRebuiltAfterChange ==
    /\ lastCall.op \in {"generateWaterGrid", "findPath", "calculateWaterRoute"}
    /\ waterGrid.built
    /\ boundaryLoad = "idle"
    /\ depthLoad = "idle"
    => waterGrid.points = BuildGridPoints(WATER_BOUNDARIES, DEPTH_GRID, MinimumSafeDepth)

\* C11: under any interleaving of the two loads and route queries, once the
\* depth data has finished loading every grid findPath searches has been
\* filtered with that depth data: each of its points carries the depth
\* sample of its id and is deep enough for the vessel.
C11_QueriesSearchDepthFilteredGrid ==
    /\ lastCall.op = "findPath"
    /\ waterGrid.built
    /\ DEPTH_GRID.loaded
    /\ depthLoad = "idle"
    => \A k \in 1..Len(waterGrid.points) :
          /\ DepthOk(DEPTH_GRID, waterGrid.points[k].id, MinimumSafeDepth)
          /\ waterGrid.points[k].depth = DepthOf(DEPTH_GRID, waterGrid.points[k].id)

\* C12: findPath called with a latitude outside [-90, 90] or a longitude
\* outside [-180, 180] fails with an outcome its caller can tell apart from
\* "no path found": what it returns differs from what a search that found
\* no path returns.
C12_InvalidCoordinatesToldApart ==
    /\ lastCall.op = "findPath"
    /\ ~ValidCoordinates(POINTS_OF_INTEREST[lastCall.from].lat,
                         POINTS_OF_INTEREST[lastCall.from].lng,
                         POINTS_OF_INTEREST[lastCall.to].lat,
                         POINTS_OF_INTEREST[lastCall.to].lng)
    => findPathReturned(lastCall.result) # findPathReturned(NoPath("exhausted"))

\* The 8-connected grid graph: two different grid points are adjacent when
\* their rows and their columns differ by at most one.
Adjacent(p, q) == p # q /\ Abs(p.row - q.row) <= 1 /\ Abs(p.col - q.col) <= 1

\* The positions in `points` reachable from the set `reached`.
RECURSIVE ReachableFrom(_, _)
ReachableFrom(points, reached) ==
    IF \A j \in 1..Len(points) :
          (\E i \in reached : Adjacent(points[i], points[j])) => j \in reached
    THEN reached
    ELSE ReachableFrom(points,
            reached \cup { j \in 1..Len(points) :
                             \E i \in reached : Adjacent(points[i], points[j]) })

Connected(points, i, j) == j \in ReachableFrom(points, {i})

\* The grid positions nearest to a coordinate, and their distance from it.
NearestOnGrid(lat, lng) ==
    { k \in 1..Len(waterGrid.points) : IsNearestOnGrid(waterGrid.points[k], lat, lng) }

SnapDistance(lat, lng) ==
    LET k == CHOOSE n \in NearestOnGrid(lat, lng) : TRUE
    IN haversineDistance(lat, lng, waterGrid.points[k].lat, waterGrid.points[k].lng)

\* The latest call was findPath with valid endpoints on a non-empty grid.
FindPathSnapped ==
    /\ lastCall.op = "findPath"
    /\ ValidCoordinates(POINTS_OF_INTEREST[lastCall.from].lat,
                        POINTS_OF_INTEREST[lastCall.from].lng,
                        POINTS_OF_INTEREST[lastCall.to].lat,
                        POINTS_OF_INTEREST[lastCall.to].lng)
    /\ waterGrid.built
    /\ Len(waterGrid.points) > 0

SnappedEndsConnected ==
    LET start == POINTS_OF_INTEREST[lastCall.from]
        end == POINTS_OF_INTEREST[lastCall.to]
    IN \A i \in NearestOnGrid(start.lat, start.lng), j \in NearestOnGrid(end.lat, end.lng) :
          Connected(waterGrid.points, i, j)

\* C13: when either endpoint lies more than MAX_GRID_SEARCH_DISTANCE_KM
\* from its nearest grid point findPath returns no path, connected snapped
\* points or not; a snap distance of at most MAX_GRID_SEARCH_DISTANCE_KM
\* is no cause of failure: with both endpoints that near and the snapped
\* points connected, a path is returned.
C13_SnapRadius ==
    FindPathSnapped =>
        LET start == POINTS_OF_INTEREST[lastCall.from]
            end == POINTS_OF_INTEREST[lastCall.to]
            startDist == SnapDistance(start.lat, start.lng)
            endDist == SnapDistance(end.lat, end.lng)
        IN /\ (startDist > MAX_GRID_SEARCH_DISTANCE_KM
                \/ endDist > MAX_GRID_SEARCH_DISTANCE_KM) => ~lastCall.result.found
           /\ (/\ startDist <= MAX_GRID_SEARCH_DISTANCE_KM
               /\ endDist <= MAX_GRID_SEARCH_DISTANCE_KM
               /\ SnappedEndsConnected) => lastCall.result.found

\* The Hudson stop snaps to a grid point connected to the anchorage's, and
\* is refused all the same.
C13_FarEndpointRefused ==
    /\ FindPathSnapped
    /\ lastCall.from = "hudson"
    /\ lastCall.to = "anchorage"
    /\ SnapDistance(POINTS_OF_INTEREST["hudson"].lat, POINTS_OF_INTEREST["hudson"].lng)
          > MAX_GRID_SEARCH_DISTANCE_KM
    /\ SnappedEndsConnected
    /\ ~lastCall.result.found

C20_GridCached ==
    [][lastCall'.op = "generateWaterGrid" =>
          /\ waterGrid.built =>
                /\ UNCHANGED <<waterGrid, gridIndex, spatialIndex>>
                /\ lastCall'.returned = waterGrid
          /\ ~waterGrid.built /\ NoBoundaryData =>
                /\ UNCHANGED <<waterGrid, gridIndex, spatialIndex>>
                /\ ~lastCall'.returned.built
          /\ ~waterGrid.built /\ ~NoBoundaryData =>
                /\ waterGrid'.built
                /\ gridIndex'.built
                /\ lastCall'.returned = waterGrid'
                /\ waterGrid'.points
                     = BuildGridPoints(WATER_BOUNDARIES, DEPTH_GRID, MinimumSafeDepth)]_vars

\* A call answered from the cache after the stores have changed: the grid
\* returned is the cached one, not the one a fresh build on the stores
\* would give.
C20_ServedFromCache ==
    /\ lastCall.op = "generateWaterGrid"
    /\ lastCall.cached
    /\ lastCall.returned = waterGrid
    /\ waterGrid.built
    /\ ~NoBoundaryData
    /\ waterGrid.points # BuildGridPoints(WATER_BOUNDARIES, DEPTH_GRID, MinimumSafeDepth)

\* C21: findPath rejects out-of-range coordinates before any search work:
\* the call returns null, does not generate the water grid, and leaves
\* waterGrid, gridIndex and spatialIndex exactly as they were.
C21_InvalidLeavesGridAlone ==
    [][/\ lastCall'.op = "findPath"
       /\ ~ValidCoordinates(POINTS_OF_INTEREST[lastCall'.from].lat,
                            POINTS_OF_INTEREST[lastCall'.from].lng,
                            POINTS_OF_INTEREST[lastCall'.to].lat,
                            POINTS_OF_INTEREST[lastCall'.to].lng)
       => /\ findPathReturned(lastCall'.result).isNull
          /\ UNCHANGED <<waterGrid, gridIndex, spatialIndex>>]_vars

\* A rejected call made while boundaries are loaded and no grid is cached:
\* generateWaterGrid would have built one, and none exists afterwards.
C21_RejectedBeforeGeneration ==
    /\ lastCall.op = "findPath"
    /\ ~ValidCoordinates(POINTS_OF_INTEREST[lastCall.from].lat,
                         POINTS_OF_INTEREST[lastCall.from].lng,
                         POINTS_OF_INTEREST[lastCall.to].lat,
                         POINTS_OF_INTEREST[lastCall.to].lng)
    /\ findPathReturned(lastCall.result).isNull
    /\ ~NoBoundaryData
    /\ ~waterGrid.built
    /\ CacheAfterGenerate.grid.built

\* What the latest routed leg handed to smoothPath (the start stop, the
\* grid path, the end stop), the spline over it, and what
\* validateSmoothedPath made of the spline with the raw points as
\* originalPath.
RawPointsOfLatest ==
    <<[lat |-> POINTS_OF_INTEREST[lastCall.from].lat,
       lng |-> POINTS_OF_INTEREST[lastCall.from].lng]>>
    \o [i \in 1..Len(PathOfLatestRoute.path) |->
           [lat |-> PathOfLatestRoute.path[i].lat, lng |-> PathOfLatestRoute.path[i].lng]]
    \o <<[lat |-> POINTS_OF_INTEREST[lastCall.to].lat,
          lng |-> POINTS_OF_INTEREST[lastCall.to].lng]>>

SplineOfLatest == catmullRomSpline(RawPointsOfLatest)

ValidationOfLatest ==
    validateSmoothedPath(WATER_BOUNDARIES, SplineOfLatest, RawPointsOfLatest)

Interior(seq) == 2..(Len(seq) - 1)

\* C24: validateSmoothedPath replaces each interior smoothed point that is
\* not in water by the nearest point of the original path when that point
\* is in water and by the last known-good point otherwise, so every
\* interior point of its output is in water; the output has as many points
\* as the input and the same first and last point, and landIssues is the
\* number of interior input points that are not in water.
C24_ValidatedInteriorInWater ==
    RoutedLegReturned /\ smoothingEnabled /\ GridIsCurrent =>
        LET input == SplineOfLatest
            output == ValidationOfLatest.validated
        IN /\ lastCall.result.coordinates
                 = [i \in 1..Len(output) |-> <<output[i].lat, output[i].lng>>]
           /\ Len(output) = Len(input)
           /\ output[1] = input[1]
           /\ output[Len(output)] = input[Len(input)]
           /\ ValidationOfLatest.landIssues
                 = Cardinality({ i \in Interior(input) :
                       ~InWater(WATER_BOUNDARIES, input[i].lat, input[i].lng) })
           /\ \A i \in Interior(input) :
                 InWater(WATER_BOUNDARIES, input[i].lat, input[i].lng)
                    => output[i] = input[i]
           /\ \A i \in Interior(output) :
                 InWater(WATER_BOUNDARIES, output[i].lat, output[i].lng)

\* The turn angle, in thousandths of a degree, at the i-th coordinate of
\* the latest routed leg, and the interior coordinates where the leg turns
\* by more than 90 degrees.
TurnAngleAt(coordinates, i) ==
    calculateTurnAngle([lat |-> coordinates[i - 1][1], lng |-> coordinates[i - 1][2]],
                       [lat |-> coordinates[i][1], lng |-> coordinates[i][2]],
                       [lat |-> coordinates[i + 1][1], lng |-> coordinates[i + 1][2]])

TurnsOver90(coordinates) ==
    { i \in Interior(coordinates) : TurnAngleAt(coordinates, i) > 90000 }

\* C25: turn analysis runs over the final coordinate sequence of the leg,
\* and every interior point whose turn angle exceeds 90 degrees yields one
\* warning carrying its location: the number of warnings is the number of
\* turns of more than 90 degrees, which is the number of turns classed
\* 'very-sharp'.
C25_WarningPerTurnOver90 ==
    RoutedLegReturned =>
        LET result == lastCall.result
            over90 == TurnsOver90(result.coordinates)
        IN /\ Len(result.warnings) = Cardinality(over90)
           /\ Len(SelectSeq(result.turns, LAMBDA t : t.severity = "very-sharp"))
                 = Cardinality(over90)
           /\ \A i \in over90 :
                 \E k \in 1..Len(result.warnings) :
                    result.warnings[k].at = result.coordinates[i]

\* ------------------------------------------------------------------------
\* Properties of the grid queries (GridSpec)
\* ------------------------------------------------------------------------
\* C14: with valid endpoints inside the search radius findPath returns a
\* path exactly when the snapped end point is reachable from the snapped
\* start point in the 8-connected grid graph; the path then runs from the
\* one to the other, and when the end is unreachable the open set empties
\* and the call returns null.
C14_PathIffReachable ==
    lastCall.op = "findPathBetween" =>
        LET result == lastCall.result
        IN /\ result.found <=> Connected(waterGrid.points, lastCall.from, lastCall.to)
           /\ result.found =>
                 /\ result.path[1] = waterGrid.points[lastCall.from]
                 /\ result.path[Len(result.path)] = waterGrid.points[lastCall.to]
           /\ ~result.found => findPathReturned(result).isNull /\ result.why = "exhausted"

\* A search from the lake to the pond, which no chain of neighbours joins.
C14_PondUnreachable ==
    /\ lastCall.op = "findPathBetween"
    /\ waterGrid.points[lastCall.from].row = 0
    /\ waterGrid.points[lastCall.to].row = 4
    /\ ~Connected(waterGrid.points, lastCall.from, lastCall.to)
    /\ ~lastCall.result.found

\* The distance-only cost of one step of a grid path, Infinity where the
\* grid graph has no edge.
StepCost(points, i, j) ==
    IF i = j THEN 0
    ELSE IF Adjacent(points[i], points[j])
    THEN haversineDistance(points[i].lat, points[i].lng, points[j].lat, points[j].lng)
    ELSE Infinity

Min(a, b) == IF a < b THEN a ELSE b
Max(a, b) == IF a > b THEN a ELSE b

\* Minimum distance-only cost over the grid paths whose inner points are
\* among the first k positions, for k up to the size of the grid.  The
\* cost matrix is a tuple of rows, built entry by entry.
RECURSIVE RelaxRow(_, _, _, _, _)
RelaxRow(cost, k, i, j, row) ==
    IF j > Len(cost) THEN row
    ELSE RelaxRow(cost, k, i, j + 1,
            Append(row, Min(cost[i][j], Min(Infinity, cost[i][k] + cost[k][j]))))

RECURSIVE RelaxRows(_, _, _, _)
RelaxRows(cost, k, i, rows) ==
    IF i > Len(cost) THEN rows
    ELSE RelaxRows(cost, k, i + 1, Append(rows, RelaxRow(cost, k, i, 1, <<>>)))

RECURSIVE ShortestVia(_, _)
ShortestVia(k, cost) ==
    IF k > Len(cost) THEN cost
    ELSE ShortestVia(k + 1, RelaxRows(cost, k, 1, <<>>))

RECURSIVE StepCostRow(_, _, _, _)
StepCostRow(points, i, j, row) ==
    IF j > Len(points) THEN row
    ELSE StepCostRow(points, i, j + 1, Append(row, StepCost(points, i, j)))

RECURSIVE StepCostRows(_, _, _)
StepCostRows(points, i, rows) ==
    IF i > Len(points) THEN rows
    ELSE StepCostRows(points, i + 1, Append(rows, StepCostRow(points, i, 1, <<>>)))

ShortestCost ==
    [g \in Grids |-> ShortestVia(1, StepCostRows(g.points, 1, <<>>))]

\* C15: the A* heuristic is admissible: for every grid point p and the
\* goal of a search, the heuristic from p to the goal never exceeds the
\* minimum distance-only cost of a grid path from p to the goal.
C15_HeuristicAdmissible ==
    lastCall.op = "findPathBetween" =>
        \A p \in 1..Len(waterGrid.points) :
            heuristic(waterGrid.points[p], waterGrid.points[lastCall.to])
                <= ShortestCost[waterGrid][p][lastCall.to]

\* A search whose start and goal face each other across the island: the
\* heuristic is the width of the island, the cheapest grid path goes round.
C15_HeuristicBelowDetour ==
    /\ lastCall.op = "findPathBetween"
    /\ lastCall.result.found
    /\ heuristic(waterGrid.points[lastCall.from], waterGrid.points[lastCall.to])
          < ShortestCost[waterGrid][lastCall.from][lastCall.to]
    /\ ShortestCost[waterGrid][lastCall.from][lastCall.to] < Infinity

\* The turn penalties a search with penalties enabled charges along a path:
\* one at every waypoint that has a predecessor and a successor.
RECURSIVE TurnPenaltiesAlong(_, _)
TurnPenaltiesAlong(path, i) ==
    IF i >= Len(path) THEN 0
    ELSE calculateTurnCost(TRUE, calculateTurnAngle(path[i - 1], path[i], path[i + 1]))
         + TurnPenaltiesAlong(path, i + 1)

\* The search in the opposite direction, on the same grid with the same
\* setting of the turn penalties.
ReverseOfLatest == GridPathTable[waterGrid][lastCall.enabled][lastCall.to][lastCall.from]

\* C16: on one grid, routing from A to B and routing from B to A both find
\* a path or both find none; with turn penalties disabled the two paths
\* have exactly the same total distance; with turn penalties enabled the
\* two distances differ by no more than the turn penalties charged along
\* either path.
C16_Symmetry ==
    lastCall.op = "findPathBetween" =>
        /\ lastCall.result.found <=> ReverseOfLatest.found
        /\ lastCall.result.found /\ ~lastCall.enabled =>
              lastCall.result.distance = ReverseOfLatest.distance
        /\ lastCall.result.found /\ lastCall.enabled =>
              Abs(lastCall.result.distance - ReverseOfLatest.distance)
                 <= Max(TurnPenaltiesAlong(lastCall.result.path, 2),
                        TurnPenaltiesAlong(ReverseOfLatest.path, 2))

\* A search across the island with turn penalties disabled, equal in
\* distance to its reverse, between two points for which the searches
\* with turn penalties enabled differ in distance.
C16_EqualAcrossIsland ==
    /\ lastCall.op = "findPathBetween"
    /\ ~lastCall.enabled
    /\ lastCall.result.found
    /\ Len(lastCall.result.path) >= 3
    /\ lastCall.result.distance = ReverseOfLatest.distance
    /\ GridPathTable[waterGrid][TRUE][lastCall.from][lastCall.to].distance
          # GridPathTable[waterGrid][TRUE][lastCall.to][lastCall.from].distance

\* What the linear-scan fallback returns for the latest nearest-point
\* query, on the grid of the current state.
LinearScanOfLatest == NearestAmong(waterGrid.points, lastCall.lat, lastCall.lng)

Range(seq) == { seq[i] : i \in 1..Len(seq) }

\* C19: getNeighbors(p) returns exactly the grid points other than p whose
\* row and col each differ from p's by at most one, each of them once and
\* so at most eight, all of them points of the water grid; and the
\* relation is symmetric: p is among the neighbours of each of its
\* neighbours.
C19_NeighboursExact ==
    lastCall.op = "getNeighbors" =>
        LET p == waterGrid.points[lastCall.of]
            returned == lastCall.returned
        IN /\ Range(returned)
                = { q \in Range(waterGrid.points) :
                      /\ q # p
                      /\ Abs(q.row - p.row) <= 1
                      /\ Abs(q.col - p.col) <= 1 }
           /\ Cardinality(Range(returned)) = Len(returned)
           /\ Len(returned) <= 8
           /\ \A q \in Range(waterGrid.points) :
                 q \in Range(returned) <=> p \in Range(getNeighbors(gridIndex.cells, q))

\* The canal cell in the middle of the lake has all eight neighbours, the
\* corner of the lake fewer.
C19_EightNeighbours ==
    /\ lastCall.op = "getNeighbors"
    /\ Len(lastCall.returned) = 8
    /\ \E k \in 1..Len(waterGrid.points) :
          Len(getNeighbors(gridIndex.cells, waterGrid.points[k])) \in 1..7

\* The lattice coordinates in the order of the nested loop, and the cell
\* id of the k-th of them: its rank among the navigable coordinates, which
\* is the id the cell has in a grid generated without depth data.
LatticeLat(k) == South + (k \div NumCols) * LatStep
LatticeLng(k) == West + (k % NumCols) * LngStep

NavigableCells == { k \in 0..(NumRows * NumCols - 1) :
                        InWater(WATER_BOUNDARIES, LatticeLat(k), LatticeLng(k)) }

CellId(k) == Cardinality({ m \in NavigableCells : m < k })

\* C22: generateWaterGrid accepts a lattice coordinate if and only if it is
\* navigable and either no depth sample exists for its cell or that sample
\* is at least minimumSafeDepth; a shallow sample excludes its own cell
\* only, and without depth data the grid is the set of navigable lattice
\* coordinates.
C22_ShallowSampleExcludesOwnCell ==
    waterGrid.built =>
        { <<waterGrid.points[i].lat, waterGrid.points[i].lng>> :
              i \in 1..Len(waterGrid.points) }
          = { <<Round6(LatticeLat(k)), Round6(LatticeLng(k))>> :
                k \in { c \in NavigableCells :
                           DepthOk(DEPTH_GRID, CellId(c), MinimumSafeDepth) } }

\* C23: with turn penalties disabled, the distance of the path findPath
\* returns is the minimum total great-circle distance over all 8-connected
\* grid paths between the snapped start point and the snapped end point.
C23_ShortestWithoutPenalties ==
    /\ lastCall.op = "findPathBetween"
    /\ ~lastCall.enabled
    /\ lastCall.result.found
    => lastCall.result.distance = ShortestCost[waterGrid][lastCall.from][lastCall.to]

\* A search without penalties between two points that several grid paths
\* of different length join: the one returned goes round the island and
\* is shorter than the one the search with penalties returns.
C23_ShorterThanPenalisedPath ==
    /\ lastCall.op = "findPathBetween"
    /\ ~lastCall.enabled
    /\ lastCall.result.found
    /\ Len(lastCall.result.path) >= 3
    /\ lastCall.result.distance = ShortestCost[waterGrid][lastCall.from][lastCall.to]
    /\ lastCall.result.distance
          < GridPathTable[waterGrid][TRUE][lastCall.from][lastCall.to].distance

\* The sum of the great-circle distances between consecutive waypoints.
RECURSIVE WaypointDistance(_)
WaypointDistance(path) ==
    IF Len(path) < 2 THEN 0
    ELSE haversineDistance(path[1].lat, path[1].lng, path[2].lat, path[2].lng)
         + WaypointDistance(Tail(path))

\* The searches with turn penalties enabled and disabled between the
\* endpoints of the latest search.
PenalisedOfLatest == GridPathTable[waterGrid][TRUE][lastCall.from][lastCall.to]
UnpenalisedOfLatest == GridPathTable[waterGrid][FALSE][lastCall.from][lastCall.to]

\* C26: the distance findPath reports is the sum of the great-circle
\* distances between consecutive waypoints of the returned path and holds
\* no turn penalty.  The penalties are non-negative and only add to the
\* cost of the search (gScore of the end point): one per waypoint that has
\* a predecessor and a successor, none on the first edge out of the start.
\* For the same endpoints the distance reported with penalties enabled is
\* never less than the distance reported with penalties disabled.
C26_DistanceWithoutPenalty ==
    lastCall.op = "findPathBetween" /\ lastCall.result.found =>
        LET result == lastCall.result
            penalties == TurnPenaltiesAlong(result.path, 2)
        IN /\ result.distance = WaypointDistance(result.path)
           /\ penalties >= 0
           /\ result.cost = result.distance + (IF lastCall.enabled THEN penalties ELSE 0)
           /\ Len(result.path) = 2 => result.cost = result.distance
           /\ PenalisedOfLatest.found /\ UnpenalisedOfLatest.found
           /\ PenalisedOfLatest.distance >= UnpenalisedOfLatest.distance

\* A search with penalties enabled whose path turns: its cost exceeds the
\* distance it reports, and that distance exceeds the one the search
\* without penalties reports for the same endpoints.
C26_PenalisedDetour ==
    /\ lastCall.op = "findPathBetween"
    /\ lastCall.enabled
    /\ lastCall.result.found
    /\ lastCall.result.cost > lastCall.result.distance
    /\ lastCall.result.distance = WaypointDistance(lastCall.result.path)
    /\ lastCall.result.distance > UnpenalisedOfLatest.distance

\* Does a sequence hold no element twice?
NoDuplicates(seq) == \A i, j \in 1..Len(seq) : seq[i] = seq[j] => i = j

\* C27: findPath terminates: each grid point is taken from the open set
\* and closed at most once and is never opened again, so the search
\* expands at most as many points as the grid has before it returns a
\* path or null, and the path it returns visits no grid point twice.
C27_ExpandedAtMostOnce ==
    lastCall.op = "findPathBetween" =>
        LET result == lastCall.result
        IN /\ NoDuplicates(result.expanded)
           /\ Len(result.expanded) <= Len(waterGrid.points)
           /\ result.found \/ result.why = "exhausted"
           /\ result.found => NoDuplicates(result.path)
           /\ ~result.found => result.path = <<>>

\* A search with turn penalties that goes on after it has closed a point
\* from which the end is reached cheaper through a neighbour closed later:
\* it expands several points, none of them twice, and returns a path
\* longer than the shortest.
C27_SearchRoundIsland ==
    /\ lastCall.op = "findPathBetween"
    /\ lastCall.enabled
    /\ lastCall.result.found
    /\ Len(lastCall.result.expanded) >= 4
    /\ Len(lastCall.result.path) >= 3
    /\ lastCall.result.distance > ShortestCost[waterGrid][lastCall.from][lastCall.to]

\* Is the cell in the grid?
InGrid(row, col) == <<row, col>> \in DOMAIN gridIndex.cells

\* A step between two grid points that differ in row and in column, with
\* neither of the two cells it passes between in the grid.
SqueezesThrough(p, q) ==
    /\ p.row # q.row
    /\ p.col # q.col
    /\ ~InGrid(p.row, q.col)
    /\ ~InGrid(q.row, p.col)

\* C28: no step of a path returned by findPath moves diagonally between
\* two grid points when both cells orthogonally adjacent to the step are
\* absent from the grid (land, island or too shallow): the path never
\* squeezes through the diagonal gap between two non-navigable cells.
C28_NoDiagonalSqueeze ==
    lastCall.op = "findPathBetween" /\ lastCall.result.found =>
        \A i \in 1..(Len(lastCall.result.path) - 1) :
            ~SqueezesThrough(lastCall.result.path[i], lastCall.result.path[i + 1])

\* ------------------------------------------------------------------------
\* Properties of the weather module (WeatherSpec)
\* ------------------------------------------------------------------------
\* C29: when the zone is changed or a refresh requested while an earlier
\* refresh is in flight, the weather data finally held, displayed and
\* cached is the data fetched for the selected zone: no data is ever
\* cached under the key of a zone it was not fetched for, and once every
\* refresh has answered, weatherData, the widget and the cache entry of
\* currentZone hold data fetched for currentZone.
C29_LatestZoneWins ==
    /\ \A key \in DOMAIN weatherCache : weatherCache[key].data.zone = key
    /\ refreshing = {} /\ currentZone \in ZONES /\ weatherData # NoWeather =>
          /\ weatherData.zone = currentZone
          /\ weatherWidget.data.zone = currentZone
          /\ weatherWidget.zoneName = currentZone
          /\ currentZone \in DOMAIN weatherCache
          /\ weatherCache[currentZone].data.zone = currentZone

\* ------------------------------------------------------------------------
\* Properties of the route planner (AppSpec)
\* ------------------------------------------------------------------------
\* The stops that are set and resolve to a catalogue entry.
ResolvableStops == SelectSeq(stops, LAMBDA s : s # NoStop /\ s \in PoiIds)

\* The latest handler planned a route.
RoutePlanned == routeCall.outcome # "none"

\* C6: planning with fewer than two resolvable stops reports
\* InsufficientStops and produces no geometry: no route line, no leg
\* listed, no totals shown.
C6_InsufficientStops ==
    RoutePlanned /\ Len(ResolvableStops) < 2 =>
        /\ routeCall.outcome = "insufficient"
        /\ toast = "error"
        /\ routeLine = NullRouteLine
        /\ itinerary = 0
        /\ tripResultsHidden
        /\ routeCall.legs = <<>>
        /\ routeCall.allCoordinates = <<>>

\* A route was planned with exactly one resolvable stop.
C6_OneStopRejected ==
    /\ routeCall.outcome = "insufficient"
    /\ Len(ResolvableStops) = 1
    /\ toast = "error"

RECURSIVE SumOfLegs(_, _)
SumOfLegs(legs, k) ==
    IF k > Len(legs) THEN 0 ELSE legs[k].distanceKm + SumOfLegs(legs, k + 1)

\* C7: with two or more resolvable stops calculateRoute completes, with
\* one leg per consecutive pair of stops and a total equal to the sum of
\* the leg distances; a leg without a path falls back to a straight line
\* and never aborts the route.
C7_RouteCompletes ==
    RoutePlanned /\ Len(ResolvableStops) >= 2 =>
        /\ routeCall.outcome = "completed"
        /\ Len(routeCall.legs) = Len(ResolvableStops) - 1
        /\ routeCall.totalDistanceKm = SumOfLegs(routeCall.legs, 1)
        /\ itinerary = Len(routeCall.legs)
        /\ ~tripResultsHidden
        /\ routeLine.drawn

\* The first leg's coordinates followed by each later leg's coordinates
\* without its first point.
RECURSIVE JoinedLegs(_, _)
JoinedLegs(routes, k) ==
    IF k > Len(routes) THEN <<>>
    ELSE (IF k = 1 THEN routes[k].coordinates ELSE Tail(routes[k].coordinates))
         \o JoinedLegs(routes, k + 1)

\* Where the junction after leg k lies in the joined list.
JunctionAt(routes, k) == Len(JoinedLegs(SubSeq(routes, 1, k), 1))

\* C8: for three or more stops (no stop repeated in a row) the route's
\* coordinate list is the first leg followed by the later legs without
\* their first points, and no junction coordinate stands twice in a row.
C8_NoDuplicateJunctions ==
    /\ routeCall.outcome = "completed"
    /\ Len(ResolvableStops) >= 3
    /\ \A k \in 1..(Len(ResolvableStops) - 1) : ResolvableStops[k] # ResolvableStops[k + 1]
    => LET all == routeCall.allCoordinates
       IN /\ all = JoinedLegs(routeCall.routes, 1)
          /\ \A k \in 1..(Len(routeCall.routes) - 1) :
                LET j == JunctionAt(routeCall.routes, k)
                IN /\ all[j] # all[j + 1]
                   /\ all[j - 1] # all[j]

\* Number of entries of seq equal to x.
Occurrences(seq, x) == Cardinality({ i \in 1..Len(seq) : seq[i] = x })

\* C30: the stop list always has at least 2 entries; removeStop at index 0
\* or at the last index changes nothing; a drop leaves the length and the
\* number of occurrences of every entry as they were; clearSelection leaves
\* exactly two empty entries.
C30_StopListKept ==
    /\ [](Len(stops) >= 2)
    /\ [][/\ \A at \in { 1, Len(stops) } : RemoveStop(at) => stops' = stops
          /\ \A from \in 1..Len(stops), to \in 1..Len(stops) :
                HandleDrop(from, to) =>
                    /\ Len(stops') = Len(stops)
                    /\ \A x \in PoiIds \cup { NoStop } :
                          Occurrences(stops', x) = Occurrences(stops, x)
          /\ ClearSelection => stops' = <<NoStop, NoStop>>]_vars

\* A full list that a drop has put in another order than it was filled in:
\* the default start is now the last of MaxStops chosen stops.
C30_ReorderedFullList ==
    /\ Len(stops) = MaxStops
    /\ \A i \in 1..Len(stops) : stops[i] # NoStop
    /\ stops[Len(stops)] = DEFAULT_START_LOCATION
    /\ stops[1] # DEFAULT_START_LOCATION
    /\ routeCall # NoRouteCall

====
